---- MODULE Spec2Model ----
(***************************************************************************)
(* Request/reply messaging substrate (KafkaSystemBus, MQTTSystemBus,       *)
(* BaseSystem) and the GCS mission saga (Mission, Orchestrator, Robot,     *)
(* Fleet, Redis components) of droneport-navigation-system.                *)
(*                                                                         *)
(* Spec      : a client bus with two concurrent request() callers, the     *)
(*             FleetComponent (whose handlers call request() themselves)   *)
(*             and the RedisComponent, over an at-least-once transport.    *)
(* SpecSaga  : task.submit -> orchestrator.plan -> robot.execute_mission,  *)
(*             every request of the saga with every outcome it can have.   *)
(***************************************************************************)
EXTENDS Integers, Sequences, FiniteSets, TLC

(* ------------------------------ bounds --------------------------------- *)
\* how many times the transport may deliver a message again (at-least-once)
MaxDup == 1
\* largest number of drones the fleet allocates to a mission of the saga
MaxDrones == 2
\* how many start() and stop() calls are made on one bus and its service
MaxCalls == 4
\* how many messages are delivered to one service's _handle_message
MaxMsgs == 2
\* the largest required_count of a redis.allocate_drones call
MaxRequired == 4
\* how many time.time() stamps the simulator takes
MaxClock == 3
\* how many requests the fleet process sends to its own topic
MaxSelf == 1

(* --------------------------- names and topics --------------------------- *)
Backends == {"kafka", "mqtt"}
Callers == {"c1", "c2"}
FleetWorker == "fleet_worker"
Threads == Callers \cup {FleetWorker}
Buses == {"client", "fleet", "redis"}

BusOf(t) == IF t \in Callers THEN "client" ELSE "fleet"

GCS_FLEET == "systems.gcs_fleet"
GCS_REDIS == "systems.gcs_redis"

\* self._reply_topic: derived from the instance identity
ReplyTopic(b) ==
    CASE b = "client" -> "replies.client"
      [] b = "fleet"  -> "replies.fleet"
      [] b = "redis"  -> "replies.redis"

\* the topic a BaseSystem subscribes in start()
InboundTopic(b) ==
    CASE b = "fleet"  -> GCS_FLEET
      [] b = "redis"  -> GCS_REDIS
      [] b = "client" -> "none"

NoCid == 0
\* correlation ids of different buses never coincide
CidBase(b) ==
    CASE b = "client" -> 100
      [] b = "fleet"  -> 200
      [] b = "redis"  -> 300
NoTopic == "none"
\* Python None, the unset state of a Future, and an absent payload
None == [none |-> TRUE]
Unset == [unset |-> TRUE]
NoMsg == [nomsg |-> TRUE]

(* ------------------------------ the roster ------------------------------ *)
\* RedisComponent.initial_fleet, in dict (insertion) order
DroneOrder == <<"drone-001", "drone-002", "drone-003", "drone-004">>
DroneIds == {DroneOrder[i] : i \in 1..Len(DroneOrder)}
initial_fleet ==
    [d \in DroneIds |-> IF d = "drone-004" THEN "charging" ELSE "available"]

VARIABLES
    backend,        \* which SystemBus implementation the factory selected
    net,            \* messages published and not yet consumed
    dups,           \* repeated deliveries made so far
    pending,        \* _pending_requests of each bus: the registered ids
    future,         \* the Future registered under each correlation id
    nextCid,        \* stands for uuid4(): each bus's next fresh id
    rpc,            \* where each thread is inside request()
    rcid,           \* the correlation id request() generated
    rreq,           \* the stamped request_message
    rres,           \* what request() returned
    rout,           \* why request() returned: reply, timeout, publish_failed
    cur,            \* the message the fleet worker's handler is processing
    fleet,          \* the roster under the key gcs:fleet
    handled,        \* correlation id -> the results handlers returned for it
    resolutions,    \* correlation id -> number of set_result() calls
    discarded,      \* correlation ids of replies the dispatcher dropped
    spc,            \* saga: where each handler of the call chain is
    stask,          \* saga: requirements.count of the submitted task
    slog,           \* saga: the requests issued so far, in order
    sstatus,        \* saga: status of the stored mission record
    sdrones,        \* saga: drone_ids the orchestrator got from the fleet
    sidx,           \* saga: index of the drone the robot is starting
    sfail,          \* saga: the first step that failed, NoFail if none
    sres,           \* saga: the result each handler returned
    lstarted,       \* lifecycle: _started of the bus
    lrunning,       \* lifecycle: _running of the BaseSystem
    lcb,            \* lifecycle: topic -> callbacks registered in _callbacks
    lworkers,       \* lifecycle: topic -> consumer workers serving it
    lerr,           \* lifecycle: a start() or stop() call raised
    lhist,          \* lifecycle: the start() and stop() calls made so far
    dq,             \* dispatch: messages _handle_message has processed
    dlast,          \* dispatch: what the last _handle_message call did
    dalive,         \* dispatch: the delivery worker is still serving the topic
    dprev,          \* dispatch: a handler raised on an earlier message
    drunning,       \* dispatch: _running of the service
    cids,           \* cancel: drone_ids in the payload of robot.abort_mission
    cfailed,        \* cancel: positions in slog of requests that got no success reply
    aprev,          \* allocate: the roster before the last redis.allocate_drones
    areq,           \* allocate: required_count of the last redis.allocate_drones
    ares,           \* allocate: the result of the last redis.allocate_drones
    arel,           \* allocate: the last redis.release_drones, NoRelease if none
    aheld,          \* allocate: ids an allocation returned and no release listed since
    mobj,           \* codec: the Message object on the sending side
    mwire,          \* codec: the dict to_dict() produced, None before
    mdec,           \* codec: the Message from_dict() built, None before
    bsub,           \* subscriptions: _started, _connected, _callbacks, workers
    blast,          \* subscriptions: the last call on the bus and what it returned
    bn,             \* subscriptions: calls made so far
    rlast,          \* respond: the last respond() call, what it published and returned
    dport           \* drone port: the simulator, the StateStore and the last calls

busVars == <<backend, net, dups, pending, future, nextCid, rpc, rcid, rreq,
             rres, rout, cur, handled, resolutions, discarded>>
sagaVars == <<spc, stask, slog, sstatus, sdrones, sidx, sfail, sres>>
lifeVars == <<lstarted, lrunning, lcb, lworkers, lerr, lhist>>
dispatchVars == <<dq, dlast, dalive, dprev, drunning>>
cancelVars == <<cids, cfailed>>
allocVars == <<aprev, areq, ares, arel, aheld>>
codecVars == <<mobj, mwire, mdec>>
subVars == <<bsub, blast, bn>>
respondVars == <<rlast>>
portVars == <<dport>>
extVars == <<lifeVars, dispatchVars, cancelVars, allocVars, codecVars, subVars,
             respondVars, portVars>>
vars == <<busVars, fleet, sagaVars, extVars>>

\* the objects of the drone port
\* _state of the DroneSimulator
sim == dport.sim
\* the last call on the simulator and what it returned
simlast == dport.simlast
\* the port:<id> records of the StateStore
pports == dport.pports
\* the drone:<id> records of the StateStore
pdrones == dport.pdrones
\* the last PortManager call and its outcome
plast == dport.plast

(* ------------------------------ messages -------------------------------- *)
\* the dict that crosses the wire; success is "absent" when the key is not set
Message(topic, action, sender, correlation_id, reply_to, success, payload) ==
    [topic |-> topic, action |-> action, sender |-> sender,
     correlation_id |-> correlation_id, reply_to |-> reply_to,
     success |-> success, payload |-> payload]

\* shared/messages.py create_response
create_response_lost(topic, correlation_id, payload, sender, success) ==
    Message(topic, "response", sender, correlation_id, NoTopic,
            IF success THEN "true" ELSE "false", [lost |-> TRUE])

create_response(topic, correlation_id, payload, sender, success) ==
    Message(topic, "response", sender, correlation_id, NoTopic,
            IF success THEN "true" ELSE "false", payload)

\* SystemBus.respond: no sender, no success key
respond_uncorrelated(original_message, response_payload, action) ==
    Message(original_message.reply_to, action, "", NoCid,
            NoTopic, "absent", response_payload)

respond(original_message, response_payload, action) ==
    Message(original_message.reply_to, action, "", original_message.correlation_id,
            NoTopic, "absent", response_payload)

\* `not response or not response.get("success")`
Failed(response) == response = None \/ response.success # "true"

(* --------------------------- RedisComponent ----------------------------- *)
\* Python's seq[:n], also for n <= 0
PySlicePrefix(seq, n) ==
    IF n >= 0
    THEN SubSeq(seq, 1, IF n < Len(seq) THEN n ELSE Len(seq))
    ELSE SubSeq(seq, 1, IF Len(seq) + n > 0 THEN Len(seq) + n ELSE 0)

SeqToSet(seq) == {seq[i] : i \in 1..Len(seq)}

AvailableAnyStatus(fl) == DroneOrder

\* [drone_id for drone_id, state in fleet.items() if status == "available"]
Available(fl) == SelectSeq(DroneOrder, LAMBDA d : fl[d] = "available")

SelectedAll(fl, required_count) == Available(fl)

Selected(fl, required_count) == PySlicePrefix(Available(fl), required_count)

\* _handle_allocate_drones: the roster after the call and the result
AllocateFleet(fl, required_count) ==
    [d \in DroneIds |->
        IF d \in SeqToSet(Selected(fl, required_count)) THEN "reserved" ELSE fl[d]]

AllocateResult(fl, required_count) ==
    [allocated_drones |-> Selected(fl, required_count),
     enough |-> Len(Selected(fl, required_count)) >= required_count]

\* _handle_release_drones
ReleaseFleetAdds(fl, drone_ids) ==
    [d \in DroneIds \cup SeqToSet(drone_ids) |->
        IF d \in SeqToSet(drone_ids) THEN "available" ELSE fl[d]]

ReleaseFleet(fl, drone_ids) ==
    [d \in DroneIds |-> IF d \in SeqToSet(drone_ids) THEN "available" ELSE fl[d]]

ReleaseResult(drone_ids) == [released |-> TRUE, drone_ids |-> drone_ids]

RedisActions == {"redis.allocate_drones", "redis.release_drones", "ping"}
FleetActions == {"fleet.allocate", "fleet.release", "ping"}

\* BaseSystem._handle_ping
PingResult(system_id) == [pong |-> TRUE, system_id |-> system_id]

(* ------------------------ request(): the registry ----------------------- *)
\* `if correlation_id in self._pending_requests` of _handle_reply / _on_message
MatchesPending(pend, correlation_id) ==
    correlation_id # NoCid /\ correlation_id \in pend

\* the key _handle_reply pops and completes
PoppedIdAny(pend, correlation_id) == CHOOSE c \in pend : c # correlation_id \/ pend = {c}

PoppedId(pend, correlation_id) == correlation_id

\* self._pending_requests.pop(correlation_id) in the dispatcher
PendingAfterResolveKept(pend, correlation_id) == pend

PendingAfterResolve(pend, correlation_id) == pend \ {correlation_id}

\* self._pending_requests.pop(correlation_id, None) after TimeoutError
EvictOnTimeoutLeak(pend, correlation_id) == pend

EvictOnTimeout(pend, correlation_id) == pend \ {correlation_id}

\* self._pending_requests.pop(correlation_id, None) after a failed publish
EvictOnPublishFailureLeak(pend, correlation_id) == pend

EvictOnPublishFailure(pend, correlation_id) == pend \ {correlation_id}

\* future.result(timeout) raises TimeoutError only while the future is not done
TimeoutRaisesNever(fut) == FALSE

TimeoutRaises(fut) == fut = Unset

\* what request() returns when publish() returned False / on TimeoutError
PublishFailedResult == None
TimeoutResult == None

Handled(cid) == IF cid \in DOMAIN handled THEN handled[cid] ELSE {}
Resolutions(cid) == IF cid \in DOMAIN resolutions THEN resolutions[cid] ELSE 0

(* --------------------------- request() steps ---------------------------- *)
\* request() waits on the future only after a successful publish
AfterPublish(ok) == IF ok THEN "waiting" ELSE "returned"

\* str(uuid4()): an id no other call of any bus has
FreshCid(b) == nextCid[b]

\* request_message = {**message, "correlation_id": ..., "reply_to": ...}
Stamp(message, topic, correlation_id, reply_to) ==
    [message EXCEPT !.topic = topic, !.correlation_id = correlation_id,
                    !.reply_to = reply_to]

\* request() up to the wait: fresh id, Future registered under the lock,
\* message stamped and published (out = what the topic receives); a failed
\* publish evicts the entry and returns at once
ReqSend(t, topic, message, ok, consumed) ==
    LET b == BusOf(t)
        cid == FreshCid(b)
        request_message == Stamp(message, topic, cid, ReplyTopic(b))
    IN
    /\ rpc[t] = "idle"
    /\ nextCid' = [nextCid EXCEPT ![b] = @ + 1]
    /\ future' = (cid :> Unset) @@ future
    /\ rcid' = [rcid EXCEPT ![t] = cid]
    /\ rreq' = [rreq EXCEPT ![t] = request_message]
    /\ IF ok
       THEN /\ pending' = [pending EXCEPT ![b] = @ \cup {cid}]
            /\ net' = (net \ consumed) \cup {request_message}
            /\ rpc' = [rpc EXCEPT ![t] = AfterPublish(ok)]
            /\ UNCHANGED <<rres, rout>>
       ELSE /\ pending' = [pending EXCEPT ![b] =
                              EvictOnPublishFailure(@ \cup {cid}, cid)]
            /\ net' = net \ consumed
            /\ rpc' = [rpc EXCEPT ![t] = AfterPublish(ok)]
            /\ rres' = [rres EXCEPT ![t] = PublishFailedResult]
            /\ rout' = [rout EXCEPT ![t] = "publish_failed"]

\* future.result(timeout) returns the value set_result() stored
ReqResult(t) ==
    /\ rpc[t] = "waiting"
    /\ future[rcid[t]] # Unset
    /\ rpc' = [rpc EXCEPT ![t] = "returned"]
    /\ rres' = [rres EXCEPT ![t] = future[rcid[t]]]
    /\ rout' = [rout EXCEPT ![t] = "reply"]
    /\ UNCHANGED <<backend, net, dups, pending, future, nextCid, rcid, rreq,
                   cur, fleet, handled, resolutions, discarded, sagaVars, extVars>>

\* future.result(timeout) raises TimeoutError; the entry is not yet evicted
ReqTimeout(t) ==
    /\ rpc[t] = "waiting"
    /\ TimeoutRaises(future[rcid[t]])
    /\ rpc' = [rpc EXCEPT ![t] = "timedout"]
    /\ UNCHANGED <<backend, net, dups, pending, future, nextCid, rcid, rreq,
                   rres, rout, cur, fleet, handled, resolutions, discarded, sagaVars, extVars>>

\* except TimeoutError: pop under the lock, return None
ReqEvict(t) ==
    /\ rpc[t] = "timedout"
    /\ pending' = [pending EXCEPT ![BusOf(t)] = EvictOnTimeout(@, rcid[t])]
    /\ rpc' = [rpc EXCEPT ![t] = "returned"]
    /\ rres' = [rres EXCEPT ![t] = TimeoutResult]
    /\ rout' = [rout EXCEPT ![t] = "timeout"]
    /\ UNCHANGED <<backend, net, dups, future, nextCid, rcid, rreq, cur, fleet,
                   handled, resolutions, discarded, sagaVars, extVars>>

(* ------------------------------ transport ------------------------------- *)
\* the topic's messages after m was consumed (or left for a repeated
\* delivery) and the handler published out
NetAfter(m, again, out) == (IF again THEN net ELSE net \ {m}) \cup out

Redeliver(again) ==
    IF again THEN dups < MaxDup /\ dups' = dups + 1 ELSE dups' = dups

\* MQTT: one paho network thread runs _on_message for every topic of the bus,
\* and the callback inside it; Kafka: one consumer thread per topic
HandlerRunning(b) == b = "fleet" /\ cur # NoMsg

WorkerFree(b, topic) ==
    IF backend = "mqtt" THEN ~HandlerRunning(b)
    ELSE topic = ReplyTopic(b) \/ ~HandlerRunning(b)

\* _handle_reply, and the correlation_id branch of _on_message
Resolve(b, m) ==
    LET k == PoppedId(pending[b], m.correlation_id) IN
    /\ pending' = [pending EXCEPT ![b] = PendingAfterResolve(@, k)]
    /\ future' = [future EXCEPT ![k] = m]
    /\ resolutions' = (k :> Resolutions(k) + 1) @@ resolutions

\* the reply topic's consumer thread (Kafka) / _on_message (MQTT, where the
\* reply topic's own callback is `lambda msg: None`)
DeliverReply(b, m, again) ==
    /\ m \in net
    /\ m.topic = ReplyTopic(b)
    /\ WorkerFree(b, m.topic)
    /\ Redeliver(again)
    /\ net' = NetAfter(m, again, {})
    /\ IF MatchesPending(pending[b], m.correlation_id)
       THEN Resolve(b, m) /\ UNCHANGED discarded
       ELSE /\ discarded' = discarded \cup {m.correlation_id}
            /\ UNCHANGED <<pending, future, resolutions>>
    /\ UNCHANGED <<backend, nextCid, rpc, rcid, rreq, rres, rout, cur, fleet,
                   handled, sagaVars, extVars>>

\* BaseSystem._handle_message of the RedisComponent: handler and reply
RedisResult(m) ==
    CASE m.action = "redis.allocate_drones" ->
             AllocateResult(fleet, m.payload.required_count)
      [] m.action = "redis.release_drones" -> ReleaseResult(m.payload.drone_ids)
      [] m.action = "ping" -> PingResult("redis")

RedisFleet(m) ==
    CASE m.action = "redis.allocate_drones" ->
             AllocateFleet(fleet, m.payload.required_count)
      [] m.action = "redis.release_drones" -> ReleaseFleet(fleet, m.payload.drone_ids)
      [] OTHER -> fleet

\* the reply _handle_message publishes for a handler result
Reply(m, result, sender) ==
    IF m.reply_to # NoTopic
    THEN {create_response(m.reply_to, m.correlation_id, result, sender, TRUE)}
    ELSE {}

\* the error reply for an action without handler
UnknownActionReplySilent(m) == {}

UnknownActionReply(m) ==
    IF m.reply_to # NoTopic
    THEN {respond(m, [error |-> "Unknown action"], "error")}
    ELSE {}

Record(m, result) ==
    handled' = (m.correlation_id :> (Handled(m.correlation_id) \cup {result}))
               @@ handled

DeliverRedis(m, again) ==
    /\ m \in net
    /\ m.topic = GCS_REDIS
    /\ WorkerFree("redis", m.topic)
    /\ Redeliver(again)
    /\ IF backend = "mqtt" /\ MatchesPending(pending["redis"], m.correlation_id)
       THEN /\ Resolve("redis", m)
            /\ net' = NetAfter(m, again, {})
            /\ UNCHANGED <<fleet, handled>>
       ELSE /\ UNCHANGED <<pending, future, resolutions>>
            /\ IF m.action \in RedisActions
               THEN /\ fleet' = RedisFleet(m)
                    /\ Record(m, RedisResult(m))
                    /\ net' = NetAfter(m, again, Reply(m, RedisResult(m), "redis"))
               ELSE /\ UNCHANGED <<fleet, handled>>
                    /\ net' = NetAfter(m, again, UnknownActionReply(m))
    /\ UNCHANGED <<backend, nextCid, rpc, rcid, rreq, rres, rout, cur, discarded, sagaVars, extVars>>

(* --------------------------- FleetComponent ----------------------------- *)
\* the request a fleet handler sends to the RedisComponent
FleetForward(m) ==
    IF m.action = "fleet.allocate"
    THEN Message(GCS_REDIS, "redis.allocate_drones", "fleet", NoCid, NoTopic,
                 "absent", [required_count |-> m.payload.required_count])
    ELSE Message(GCS_REDIS, "redis.release_drones", "fleet", NoCid, NoTopic,
                 "absent", [drone_ids |-> m.payload.drone_ids])

\* _handle_allocate / _handle_release after send_to_other_system returned
FleetResult(m, response) ==
    IF m.action = "fleet.allocate"
    THEN IF Failed(response)
         THEN [allocated_drones |-> <<>>, enough |-> FALSE,
               error |-> "redis unavailable"]
         ELSE response.payload
    ELSE IF Failed(response)
         THEN [released |-> FALSE, drone_ids |-> m.payload.drone_ids]
         ELSE response.payload

\* a message on the fleet topic: _handle_message up to the handler's request()
DeliverFleet(m, again) ==
    /\ m \in net
    /\ m.topic = GCS_FLEET
    /\ WorkerFree("fleet", m.topic)
    /\ Redeliver(again)
    /\ IF backend = "mqtt" /\ MatchesPending(pending["fleet"], m.correlation_id)
       THEN /\ Resolve("fleet", m)
            /\ net' = NetAfter(m, again, {})
            /\ UNCHANGED <<nextCid, rpc, rcid, rreq, rres, rout, cur, handled>>
       ELSE IF m.action \in {"fleet.allocate", "fleet.release"}
            THEN /\ \E ok \in BOOLEAN :
                      ReqSend(FleetWorker, GCS_REDIS, FleetForward(m), ok,
                              IF again THEN {} ELSE {m})
                 /\ cur' = m
                 /\ UNCHANGED <<handled, resolutions>>
            ELSE /\ UNCHANGED <<pending, future, resolutions, nextCid, rpc, rcid,
                                rreq, rres, rout, cur>>
                 /\ IF m.action = "ping"
                    THEN /\ Record(m, PingResult("fleet"))
                         /\ net' = NetAfter(m, again,
                                            Reply(m, PingResult("fleet"), "fleet"))
                    ELSE /\ UNCHANGED handled
                         /\ net' = NetAfter(m, again, UnknownActionReply(m))
    /\ UNCHANGED <<backend, fleet, discarded, sagaVars, extVars>>

\* the handler's request() returned: result, reply, worker free again
FleetFinish ==
    /\ cur # NoMsg
    /\ rpc[FleetWorker] = "returned"
    /\ LET result == FleetResult(cur, rres[FleetWorker]) IN
        /\ Record(cur, result)
        /\ net' = net \cup Reply(cur, result, "fleet")
    /\ cur' = NoMsg
    /\ rpc' = [rpc EXCEPT ![FleetWorker] = "idle"]
    /\ rcid' = [rcid EXCEPT ![FleetWorker] = NoCid]
    /\ rreq' = [rreq EXCEPT ![FleetWorker] = NoMsg]
    /\ rres' = [rres EXCEPT ![FleetWorker] = None]
    /\ rout' = [rout EXCEPT ![FleetWorker] = "none"]
    /\ UNCHANGED <<backend, dups, pending, future, nextCid, fleet, resolutions,
                   discarded, sagaVars, extVars>>

(* ------------------------------- clients -------------------------------- *)
\* what the callers of the client bus ask the fleet service: the first one
\* allocates a drone, the second one probes liveness
ClientRequests(c) ==
    IF c = "c1"
    THEN {Message(NoTopic, "fleet.allocate", "client", NoCid, NoTopic, "absent",
                  [required_count |-> 1])}
    ELSE {Message(NoTopic, "ping", "client", NoCid, NoTopic, "absent",
                  [data |-> "hello"])}

ClientRequest(c) ==
    /\ \E message \in ClientRequests(c), ok \in BOOLEAN :
         ReqSend(c, GCS_FLEET, message, ok, {})
    /\ UNCHANGED <<backend, dups, cur, fleet, handled, resolutions, discarded, sagaVars, extVars>>

\* a thread of the fleet process that is not inside a handler sends a request
\* to the topic its own bus subscribes
SelfRequest ==
    /\ cur = NoMsg
    /\ nextCid["fleet"] <= CidBase("fleet") + MaxSelf
    /\ \E ok \in BOOLEAN :
         ReqSend(FleetWorker, GCS_FLEET,
                 Message(NoTopic, "ping", "fleet", NoCid, NoTopic, "absent",
                         [data |-> "self"]), ok, {})
    /\ UNCHANGED <<backend, dups, cur, fleet, handled, resolutions, discarded, sagaVars, extVars>>

\* request() returned to that thread
SelfDone ==
    /\ cur = NoMsg
    /\ rpc[FleetWorker] = "returned"
    /\ rpc' = [rpc EXCEPT ![FleetWorker] = "idle"]
    /\ rcid' = [rcid EXCEPT ![FleetWorker] = NoCid]
    /\ rreq' = [rreq EXCEPT ![FleetWorker] = NoMsg]
    /\ rres' = [rres EXCEPT ![FleetWorker] = None]
    /\ rout' = [rout EXCEPT ![FleetWorker] = "none"]
    /\ UNCHANGED <<backend, net, dups, pending, future, nextCid, cur, fleet,
                   handled, resolutions, discarded, sagaVars, extVars>>

(* ------------------------------ saga state ------------------------------ *)
SagaProcs == {"mission", "orchestrator", "robot"}
NoFail == [step |-> "none", drone |-> "", kind |-> "none", at |-> 0]
\* an `error` key that the result does not have
NoError == <<"", "">>

\* rosters a mission can find: the initial one, and one where an earlier
\* mission holds two of the three available drones
SagaRosters ==
    {initial_fleet,
     [d \in DroneIds |->
        IF d \in {"drone-001", "drone-002"} THEN "reserved" ELSE initial_fleet[d]]}

SagaIdle ==
    /\ spc = [p \in SagaProcs |-> "idle"]
    /\ stask = 0
    /\ slog = <<>>
    /\ sstatus = "none"
    /\ sdrones = <<>>
    /\ sidx = 0
    /\ sfail = NoFail
    /\ sres = [p \in SagaProcs |-> None]

\* how a request to a service that calls nobody else can end: a success
\* reply, a reply that reports rejection in its payload, an error reply
\* (success = false), or no reply within the timeout
Outcomes == {"ok", "error", "timeout"}
PortOutcomes == {"ok", "rejected", "error", "timeout"}

\* send_to_other_system(target_topic, action, payload): the request as issued
Req(from, to, action, arg) == [from |-> from, to |-> to, action |-> action, arg |-> arg]

\* the first step of the saga that did not succeed
Fail(step, drone, o, at) ==
    IF sfail = NoFail /\ o # "ok"
    THEN [step |-> step, drone |-> drone, kind |-> o, at |-> at]
    ELSE sfail

\* RedisComponent._handle_update_mission: only an existing record is updated
UpdatedStatus(status, new) == IF status = "none" THEN status ELSE new

\* whether the addressed service processed a request that ended with o
Processed(o, late) == o = "ok" \/ (o = "timeout" /\ late)

(* --------------------------- MissionComponent --------------------------- *)
MissionResult(accepted, status, drone_ids, error) ==
    [accepted |-> accepted, status |-> status, drone_ids |-> drone_ids,
     error |-> error]

\* _handle_task_submit: redis.save_mission
MissionSave(count, o, late) ==
    /\ spc["mission"] = "idle"
    /\ stask' = count
    /\ slog' = Append(slog, Req("mission", "redis", "redis.save_mission", "created"))
    /\ sstatus' = IF Processed(o, late) THEN "created" ELSE sstatus
    /\ IF o = "ok"
       THEN /\ spc' = [spc EXCEPT !["mission"] = "call_plan"]
            /\ UNCHANGED sres
       ELSE /\ spc' = [spc EXCEPT !["mission"] = "done"]
            /\ sres' = [sres EXCEPT !["mission"] =
                          MissionResult(FALSE, "absent", <<>>,
                                        <<"failed to save mission", "">>)]
    /\ UNCHANGED <<extVars, busVars, fleet, sdrones, sidx, sfail>>

\* _handle_task_submit: orchestrator.plan is sent
MissionCallPlan ==
    /\ spc["mission"] = "call_plan"
    /\ slog' = Append(slog, Req("mission", "orchestrator", "orchestrator.plan", ""))
    /\ spc' = [spc EXCEPT !["mission"] = "wait_plan", !["orchestrator"] = "allocate"]
    /\ UNCHANGED <<extVars, busVars, fleet, stask, sstatus, sdrones, sidx, sfail, sres>>

\* the public result built from the orchestrator's reply
PublicResult(result_payload) ==
    MissionResult(result_payload.accepted, result_payload.status,
                  result_payload.drone_ids, NoError)

MissionPlanReply ==
    /\ spc["mission"] = "wait_plan"
    /\ spc["orchestrator"] = "done"
    /\ spc' = [spc EXCEPT !["mission"] = "done"]
    /\ sres' = [sres EXCEPT !["mission"] = PublicResult(sres["orchestrator"])]
    /\ UNCHANGED <<extVars, busVars, fleet, stask, slog, sstatus, sdrones, sidx, sfail>>

\* request() to the orchestrator returned None
MissionPlanTimeout ==
    /\ spc["mission"] = "wait_plan"
    /\ spc' = [spc EXCEPT !["mission"] = "done"]
    /\ sres' = [sres EXCEPT !["mission"] =
                  MissionResult(FALSE, "absent", <<>>,
                                <<"orchestrator unavailable", "">>)]
    /\ UNCHANGED <<extVars, busVars, fleet, stask, slog, sstatus, sdrones, sidx, sfail>>

(* ------------------------- OrchestratorComponent ------------------------ *)
PlanResult(accepted, status, drone_ids, error) ==
    [accepted |-> accepted, status |-> status, drone_ids |-> drone_ids,
     error |-> error]

\* max(1, required_count)
RequiredCount(count) == IF count > 1 THEN count ELSE 1

\* _handle_plan: fleet.allocate and the two checks after it
OrchAllocate(o, late) ==
    LET n == RequiredCount(stask)
        allocated_payload == AllocateResult(fleet, n)
        at == Len(slog) + 1
    IN
    /\ spc["orchestrator"] = "allocate"
    /\ slog' = Append(slog, Req("orchestrator", "fleet", "fleet.allocate", ""))
    /\ fleet' = IF Processed(o, late) THEN AllocateFleet(fleet, n) ELSE fleet
    /\ IF o # "ok"
       THEN /\ sfail' = Fail("allocate", "", o, at)
            /\ spc' = [spc EXCEPT !["orchestrator"] = "done"]
            /\ sres' = [sres EXCEPT !["orchestrator"] =
                          PlanResult(FALSE, "failed", <<>>,
                                     <<"fleet unavailable", "">>)]
            /\ UNCHANGED sdrones
       ELSE /\ sdrones' = allocated_payload.allocated_drones
            /\ UNCHANGED sres
            /\ IF allocated_payload.enough
               THEN /\ spc' = [spc EXCEPT !["orchestrator"] = "upd_planned"]
                    /\ UNCHANGED sfail
               ELSE /\ spc' = [spc EXCEPT !["orchestrator"] = "upd_not_enough"]
                    /\ sfail' = Fail("allocate", "", "not_enough", at)
    /\ UNCHANGED <<extVars, busVars, stask, sstatus, sidx>>

\* the status each redis.update_mission of _handle_plan writes, the result
\* returned after it (None: the handler goes on) and where it goes on
OrchWrites(pc) ==
    CASE pc = "upd_not_enough"   -> "failed"
      [] pc = "upd_planned"      -> "planned"
      [] pc = "upd_robot_failed" -> "failed"
      [] pc = "upd_start_failed" -> "failed"
      [] pc = "upd_running"      -> "running"

OrchReturns(pc) ==
    CASE pc = "upd_not_enough" ->
             PlanResult(FALSE, "failed", <<>>, <<"not enough drones", "">>)
      [] pc = "upd_planned" -> None
      [] pc = "upd_robot_failed" ->
             PlanResult(FALSE, "failed", <<>>, <<"robot unavailable", "">>)
      [] pc = "upd_start_failed" ->
             PlanResult(FALSE, "failed", sdrones, sres["robot"].error)
      [] pc = "upd_running" -> PlanResult(TRUE, "running", sdrones, NoError)

OrchUpdates ==
    {"upd_not_enough", "upd_planned", "upd_robot_failed", "upd_start_failed",
     "upd_running"}

\* _handle_plan: a redis.update_mission, whose reply is not looked at
OrchUpdate(o, late) ==
    LET pc == spc["orchestrator"] IN
    /\ pc \in OrchUpdates
    /\ slog' = Append(slog, Req("orchestrator", "redis", "redis.update_mission",
                                OrchWrites(pc)))
    /\ sstatus' = IF Processed(o, late)
                  THEN UpdatedStatus(sstatus, OrchWrites(pc)) ELSE sstatus
    /\ IF OrchReturns(pc) = None
       THEN /\ spc' = [spc EXCEPT !["orchestrator"] = "call_robot"]
            /\ UNCHANGED sres
       ELSE /\ spc' = [spc EXCEPT !["orchestrator"] = "done"]
            /\ sres' = [sres EXCEPT !["orchestrator"] = OrchReturns(pc)]
    /\ UNCHANGED <<extVars, busVars, fleet, stask, sdrones, sidx, sfail>>

\* _handle_plan: robot.execute_mission is sent
OrchCallRobot ==
    /\ spc["orchestrator"] = "call_robot"
    /\ slog' = Append(slog, Req("orchestrator", "robot", "robot.execute_mission", ""))
    /\ spc' = [spc EXCEPT !["orchestrator"] = "wait_robot",
                          !["robot"] = "reserve_slots"]
    /\ UNCHANGED <<extVars, busVars, fleet, stask, sstatus, sdrones, sidx, sfail, sres>>

\* the robot's reply arrived: `if not robot_payload.get("started", False)`
OrchRobotReply ==
    /\ spc["orchestrator"] = "wait_robot"
    /\ spc["robot"] = "done"
    /\ spc' = [spc EXCEPT !["orchestrator"] =
                  IF sres["robot"].started THEN "upd_running" ELSE "upd_start_failed"]
    /\ UNCHANGED <<extVars, busVars, fleet, stask, slog, sstatus, sdrones, sidx, sfail, sres>>

\* request() to the robot returned None
OrchRobotTimeout ==
    /\ spc["orchestrator"] = "wait_robot"
    /\ spc' = [spc EXCEPT !["orchestrator"] = "upd_robot_failed"]
    /\ UNCHANGED <<extVars, busVars, fleet, stask, slog, sstatus, sdrones, sidx, sfail, sres>>

(* ---------------------------- RobotComponent ---------------------------- *)
RobotResult(started, error) == [started |-> started, error |-> error]

PortSteps ==
    <<"reserve_slots", "preflight_check", "charge_to_threshold",
      "release_for_takeoff">>
DroneSteps == <<"upload_mission", "arm", "takeoff">>

IndexOf(seq, x) == CHOOSE i \in 1..Len(seq) : seq[i] = x

\* the error of a step that timed out: "<step> timeout for <drone_id>"
StepTimeout(step, drone_id) == <<step, drone_id>>

\* `if not reserve` and its like: only None stops the handler
RobotStops(o) == o = "timeout"

\* where _handle_execute_mission goes after a drone port step
AfterPortStepUnordered(step, drone_ids) ==
    CASE step = "reserve_slots" -> "charge_to_threshold"
      [] step = "charge_to_threshold" -> "preflight_check"
      [] step = "preflight_check" -> "release_for_takeoff"
      [] OTHER -> IF drone_ids = <<>> THEN "upd_running" ELSE "upload_mission"

AfterPortStep(step, drone_ids) ==
    IF IndexOf(PortSteps, step) < Len(PortSteps)
    THEN PortSteps[IndexOf(PortSteps, step) + 1]
    ELSE IF drone_ids = <<>> THEN "upd_running" ELSE "upload_mission"

\* _handle_execute_mission: one of the four drone port requests
RobotPortStep(o) ==
    LET step == spc["robot"] IN
    /\ step \in SeqToSet(PortSteps)
    /\ slog' = Append(slog, Req("robot", "droneport", step, ""))
    /\ sfail' = Fail(step, "", o, Len(slog) + 1)
    /\ IF RobotStops(o)
       THEN /\ spc' = [spc EXCEPT !["robot"] = "done"]
            /\ sres' = [sres EXCEPT !["robot"] =
                          RobotResult(FALSE, StepTimeout(step, ""))]
            /\ UNCHANGED sidx
       ELSE /\ spc' = [spc EXCEPT !["robot"] = AfterPortStep(step, sdrones)]
            /\ sidx' = IF AfterPortStep(step, sdrones) = "upload_mission" THEN 1 ELSE sidx
            /\ UNCHANGED sres
    /\ UNCHANGED <<extVars, busVars, fleet, stask, sstatus, sdrones>>

\* _handle_execute_mission: upload_mission, arm or takeoff of drone_ids[sidx]
RobotDroneStep(o) ==
    LET step == spc["robot"]
        drone_id == sdrones[sidx]
        k == IndexOf(DroneSteps, step)
    IN
    /\ step \in SeqToSet(DroneSteps)
    /\ slog' = Append(slog, Req("robot", "drone_service", step, drone_id))
    /\ sfail' = Fail(step, drone_id, o, Len(slog) + 1)
    /\ IF RobotStops(o)
       THEN /\ spc' = [spc EXCEPT !["robot"] = "done"]
            /\ sres' = [sres EXCEPT !["robot"] =
                          RobotResult(FALSE, StepTimeout(step, drone_id))]
            /\ UNCHANGED sidx
       ELSE /\ UNCHANGED sres
            /\ IF k < Len(DroneSteps)
               THEN /\ spc' = [spc EXCEPT !["robot"] = DroneSteps[k + 1]]
                    /\ UNCHANGED sidx
               ELSE IF sidx < Len(sdrones)
                    THEN /\ spc' = [spc EXCEPT !["robot"] = DroneSteps[1]]
                         /\ sidx' = sidx + 1
                    ELSE /\ spc' = [spc EXCEPT !["robot"] = "upd_running"]
                         /\ UNCHANGED sidx
    /\ UNCHANGED <<extVars, busVars, fleet, stask, sstatus, sdrones>>

\* _handle_execute_mission: redis.update_mission(status = running) and return
RobotUpdate(o, late) ==
    /\ spc["robot"] = "upd_running"
    /\ slog' = Append(slog, Req("robot", "redis", "redis.update_mission", "running"))
    /\ sstatus' = IF Processed(o, late)
                  THEN UpdatedStatus(sstatus, "running") ELSE sstatus
    /\ spc' = [spc EXCEPT !["robot"] = "done"]
    /\ sres' = [sres EXCEPT !["robot"] = RobotResult(TRUE, NoError)]
    /\ UNCHANGED <<extVars, busVars, fleet, stask, sdrones, sidx, sfail>>

(* ------------------------- start() and stop() --------------------------- *)
\* the bus of one service (the FleetComponent) and the BaseSystem on it
LifeTopics == {ReplyTopic("fleet"), GCS_FLEET}
LifeCalls == {"bus.start", "bus.stop", "system.start", "system.stop"}
NoSubscriptions == [t \in LifeTopics |-> 0]

\* the fields of the bus that start(), stop(), subscribe() and unsubscribe()
\* touch: _started, _callbacks, the consumer workers (Kafka: one thread per
\* topic; MQTT: the broker's subscription served by the network thread), and
\* whether one of the calls raised
BusState == [started |-> lstarted, cb |-> lcb, workers |-> lworkers, err |-> lerr]

\* `if topic in self._callbacks: return True` of KafkaSystemBus.subscribe
AlreadySubscribedNever(cb, topic) == FALSE

AlreadySubscribed(cb, topic) == cb[topic] > 0

\* unsubscribe() deletes an entry only under `if topic in ...`, and stop()
\* closes only `if self._client` / inside try: a missing entry raises nothing
MissingEntryRaises(cb, topic) == FALSE

\* KafkaSystemBus.subscribe: callback stored, consumer created, thread started
KafkaSubscribe(st, topic) ==
    IF AlreadySubscribed(st.cb, topic)
    THEN st
    ELSE [st EXCEPT !.cb[topic] = 1, !.workers[topic] = @ + 1]

\* KafkaSystemBus.start
KafkaStart(st) ==
    IF st.started
    THEN st
    ELSE [KafkaSubscribe(st, ReplyTopic("fleet")) EXCEPT !.started = TRUE]

\* KafkaSystemBus.unsubscribe: thread joined, callback and consumer deleted
KafkaUnsubscribe(st, topic) ==
    [st EXCEPT !.cb[topic] = 0, !.workers[topic] = 0,
               !.err = @ \/ MissingEntryRaises(st.cb, topic)]

\* KafkaSystemBus.stop / MQTTSystemBus.stop: everything cleared
BusStopped(st) ==
    [st EXCEPT !.cb = NoSubscriptions, !.workers = NoSubscriptions,
               !.started = FALSE,
               !.err = @ \/ MissingEntryRaises(st.cb, ReplyTopic("fleet"))]

\* MQTTSystemBus.subscribe after its start() check: the dict entry is
\* assigned, and client.subscribe() is called when connected (subscribing a
\* topic again leaves one subscription at the broker)
MqttRegister(st, topic, connected) ==
    [st EXCEPT !.cb[topic] = 1,
               !.workers[topic] = IF connected THEN 1 ELSE @]

\* _on_connect: the topics that already have a callback are subscribed
OnConnect(st) ==
    [st EXCEPT !.workers = [t \in LifeTopics |-> IF st.cb[t] > 0 THEN 1 ELSE @[t]]]

\* MQTTSystemBus.start (the broker accepts the connection)
MqttStart(st) ==
    IF st.started
    THEN st
    ELSE [MqttRegister(OnConnect(st), ReplyTopic("fleet"), TRUE) EXCEPT !.started = TRUE]

\* MQTTSystemBus.subscribe
MqttSubscribe(st, topic) ==
    LET s1 == IF ~st.started /\ topic # ReplyTopic("fleet") THEN MqttStart(st) ELSE st
    IN MqttRegister(s1, topic, s1.started)

\* MQTTSystemBus.unsubscribe
MqttUnsubscribe(st, topic) ==
    [st EXCEPT !.cb[topic] = 0,
               !.workers[topic] = IF st.started THEN 0 ELSE @,
               !.err = @ \/ MissingEntryRaises(st.cb, topic)]

BusStarted(st) == IF backend = "kafka" THEN KafkaStart(st) ELSE MqttStart(st)
BusSubscribed(st, topic) ==
    IF backend = "kafka" THEN KafkaSubscribe(st, topic) ELSE MqttSubscribe(st, topic)
BusUnsubscribed(st, topic) ==
    IF backend = "kafka" THEN KafkaUnsubscribe(st, topic) ELSE MqttUnsubscribe(st, topic)

\* one more call is made and the bus is left in state st
LifeStep(call, st, running) ==
    /\ Len(lhist) < MaxCalls
    /\ lhist' = Append(lhist, call)
    /\ lstarted' = st.started
    /\ lcb' = st.cb
    /\ lworkers' = st.workers
    /\ lerr' = st.err
    /\ lrunning' = running
    /\ UNCHANGED <<busVars, fleet, sagaVars, dispatchVars, cancelVars, allocVars, codecVars, subVars, respondVars, portVars>>

\* bus.start() / bus.stop() called directly
StartBus == LifeStep("bus.start", BusStarted(BusState), lrunning)
StopBus == LifeStep("bus.stop", BusStopped(BusState), lrunning)

\* BaseSystem.start: bus.start(), bus.subscribe(self.topic, ...), _running
StartSystem ==
    LifeStep("system.start", BusSubscribed(BusStarted(BusState), GCS_FLEET), TRUE)

\* BaseSystem.stop: _running cleared, bus.unsubscribe(self.topic), bus.stop()
StopSystem ==
    LifeStep("system.stop", BusStopped(BusUnsubscribed(BusState, GCS_FLEET)), FALSE)

(* ----------------------- BaseSystem._handle_message --------------------- *)
Services ==
    {"dummy", "mission", "orchestrator", "fleet", "robot", "telemetry", "redis"}

\* _register_handlers of each service
OwnActions(svc) ==
    CASE svc = "dummy" -> {"echo", "process"}
      [] svc = "mission" -> {"task.submit", "mission.cancel", "mission.get"}
      [] svc = "orchestrator" -> {"orchestrator.plan", "orchestrator.cancel"}
      [] svc = "fleet" -> {"fleet.allocate", "fleet.release", "fleet.get_status"}
      [] svc = "robot" -> {"robot.execute_mission", "robot.abort_mission"}
      [] svc = "telemetry" -> {"telemetry.update"}
      [] svc = "redis" ->
             {"redis.save_mission", "redis.get_mission", "redis.update_mission",
              "redis.upsert_telemetry", "redis.allocate_drones",
              "redis.release_drones", "redis.get_fleet_status"}

\* the keys of self._handlers: _setup_handlers, then _register_handlers
Handlers(svc) == {"ping", "get_status"} \cup OwnActions(svc)

\* the method self._handle_get_status resolves to when _setup_handlers
\* registers it: FleetComponent defines a method of that name
StatusHandler(svc) ==
    IF svc = "fleet"
    THEN "FleetComponent._handle_get_status"
    ELSE "BaseSystem._handle_get_status"

\* the bound method stored under an action
HandlerFor(svc, action) ==
    CASE action = "ping" -> "BaseSystem._handle_ping"
      [] action = "get_status" -> StatusHandler(svc)
      [] action = "fleet.get_status" -> "FleetComponent._handle_get_status"
      [] OTHER -> action

\* BaseSystem.get_status
StatusResult(svc, running) ==
    [system_id |-> svc, system_type |-> svc, running |-> running,
     handlers |-> Handlers(svc)]

\* RedisComponent._handle_get_fleet_status, as FleetComponent passes it on
FleetStatusResult(fl) ==
    [fleet_size |-> Cardinality(DroneIds),
     available |-> Cardinality({d \in DroneIds : fl[d] = "available"}),
     reserved |-> Cardinality({d \in DroneIds : fl[d] = "reserved"}),
     charging |-> Cardinality({d \in DroneIds : fl[d] = "charging"})]

\* how a handler call can end: a result, the result for an unavailable
\* store, None, or an exception (with or without a message text)
Behaviours(svc, action) ==
    CASE action = "ping" -> {"returns"}
      [] HandlerFor(svc, action) = "BaseSystem._handle_get_status" ->
             IF svc = "redis" THEN {"returns", "raises"} ELSE {"returns"}
      [] HandlerFor(svc, action) = "FleetComponent._handle_get_status" ->
             {"returns", "unavailable"}
      [] OTHER -> {"returns", "returns_empty", "returns_none", "raises", "raises_blank"}

Raises(beh) == beh \in {"raises", "raises_blank"}

\* str(e) of the exception a handler raised
Description(beh) == IF beh = "raises" THEN "boom" ELSE ""

\* what the handler stored under the action returns
HandlerResult(svc, action, beh, running) ==
    CASE beh = "returns_none" -> None
      [] beh = "returns_empty" -> <<>>
      [] HandlerFor(svc, action) = "BaseSystem._handle_ping" -> PingResult(svc)
      [] HandlerFor(svc, action) = "BaseSystem._handle_get_status" ->
             StatusResult(svc, running)
      [] HandlerFor(svc, action) = "FleetComponent._handle_get_status" ->
             IF beh = "unavailable"
             THEN [error |-> "redis unavailable"]
             ELSE FleetStatusResult(fleet)
      [] OTHER -> [result |-> action]

\* `result is not None`: an empty mapping is a result too
HasResultIfTruthy(result) == result # None /\ result # <<>>

HasResult(result) == result # None

\* the part of _handle_message inside `try: ... except Exception`
CaughtNowhere(where) == FALSE

CaughtAtDispatch(where) == where \in {"handler", "reply"}

\* create_response(..., payload={}, success=False, error=str(e)): the error
\* key is set only `if error`
ErrorResponse(topic, correlation_id, sender, error) ==
    IF error = ""
    THEN create_response(topic, correlation_id, <<>>, sender, FALSE)
    ELSE create_response(topic, correlation_id, <<>>, sender, FALSE)
            @@ [error |-> error]

NoDispatch ==
    [svc |-> "", msg |-> NoMsg, beh |-> "none", invoked |-> "none", pub |-> {},
     propagated |-> FALSE]

\* _handle_message(message) of service svc: the handler it invoked, what it
\* published and whether an exception left it
Dispatched(svc, msg, beh, running) ==
    IF msg.action = ""
    THEN [svc |-> svc, msg |-> msg, beh |-> "none", invoked |-> "none",
          pub |-> {}, propagated |-> FALSE]
    ELSE IF msg.action \notin Handlers(svc)
    THEN [svc |-> svc, msg |-> msg, beh |-> "none", invoked |-> "none",
          pub |-> UnknownActionReply(msg), propagated |-> FALSE]
    ELSE IF Raises(beh)
    THEN [svc |-> svc, msg |-> msg, beh |-> beh,
          invoked |-> HandlerFor(svc, msg.action),
          pub |-> IF CaughtAtDispatch("handler") /\ msg.reply_to # NoTopic
                  THEN {ErrorResponse(msg.reply_to, msg.correlation_id, svc,
                                      Description(beh))}
                  ELSE {},
          propagated |-> ~CaughtAtDispatch("handler")]
    ELSE [svc |-> svc, msg |-> msg, beh |-> beh,
          invoked |-> HandlerFor(svc, msg.action),
          pub |-> IF HasResult(HandlerResult(svc, msg.action, beh, running))
                  THEN Reply(msg, HandlerResult(svc, msg.action, beh, running), svc)
                  ELSE {},
          propagated |-> FALSE,
          result |-> HandlerResult(svc, msg.action, beh, running)]

\* the messages a service can find on its topic: a request() of a client
\* (stamped) or a publish() (not stamped), with any action, none included
Incoming(svc) ==
    {Message(svc, action, "client", stamp[1], stamp[2], "absent", [data |-> "hello"]) :
        action \in Handlers(svc) \cup {"bogus", ""},
        stamp \in {<<CidBase("client") + 1, ReplyTopic("client")>>,
                   <<NoCid, NoTopic>>}}

\* the consumer loop / _on_message catch what the callback lets through
LoopCatches == TRUE

\* one message is delivered to the service's callback
Dispatch(svc, msg, beh) ==
    /\ dalive
    /\ dq < MaxMsgs
    /\ msg \in Incoming(svc)
    /\ beh \in (IF msg.action \in Handlers(svc)
                THEN Behaviours(svc, msg.action) ELSE {"none"})
    /\ dq' = dq + 1
    /\ dlast' = Dispatched(svc, msg, beh, drunning)
    /\ dalive' = (dalive /\ (~dlast'.propagated \/ LoopCatches))
    /\ dprev' = (dprev \/ Raises(dlast.beh))
    /\ UNCHANGED <<drunning, busVars, fleet, sagaVars, lifeVars, cancelVars, allocVars, codecVars, subVars, respondVars, portVars>>

\* BaseSystem.start sets _running after the topic is subscribed
MarkRunning ==
    /\ ~drunning
    /\ drunning' = TRUE
    /\ UNCHANGED <<dq, dlast, dalive, dprev, busVars, fleet, sagaVars, lifeVars,
                   cancelVars, allocVars, codecVars, subVars, respondVars, portVars>>

DispatchIdle ==
    /\ dq = 0
    /\ dlast = NoDispatch
    /\ dalive = TRUE
    /\ dprev = FALSE
    /\ drunning = FALSE

(* ------------- orchestrator.cancel and robot.abort_mission --------------- *)
\* mission records the store can hold when a cancel arrives: none, or one
\* with a status and the drones assigned to it
StoredMissions ==
    {[status |-> "none", assigned_drones |-> <<>>]}
    \cup {[status |-> st, assigned_drones |-> SubSeq(DroneOrder, 1, n)] :
            st \in {"created", "planned", "running", "failed"}, n \in 0..MaxDrones}

\* the roster while the drones of the stored mission are reserved
RosterHolding(drone_ids) ==
    [d \in DroneIds |-> IF d \in SeqToSet(drone_ids) THEN "reserved" ELSE initial_fleet[d]]

\* a request is issued and ends with outcome o
Issue(req, o) ==
    /\ slog' = Append(slog, req)
    /\ cfailed' = IF o = "ok" THEN cfailed ELSE cfailed \cup {Len(slog) + 1}

CancelResult(cancelled) ==
    IF cancelled THEN [cancelled |-> TRUE]
    ELSE [cancelled |-> FALSE, error |-> "mission_id is required"]

AbortResult(aborted, drone_ids) == [aborted |-> aborted, drone_ids |-> drone_ids]

\* _handle_abort_mission discards what send_to_other_system returns: after
\* the abort of a drone comes its emergency_receive, whatever the outcome
AfterAbortIfAnswered(o) == IF o = "ok" THEN "emergency_receive" ELSE "release"

AfterAbort(o) == "emergency_receive"

\* where _handle_abort_mission starts for the drone_ids of its payload
AbortEntry(drone_ids) == IF drone_ids = <<>> THEN "release" ELSE "abort"

\* a client publishes orchestrator.cancel, with or without a mission_id
CancelSubmit(has_id) ==
    /\ \A p \in SagaProcs : spc[p] = "idle"
    /\ IF has_id
       THEN /\ spc' = [spc EXCEPT !["orchestrator"] = "get_mission"]
            /\ UNCHANGED sres
       ELSE /\ spc' = [spc EXCEPT !["orchestrator"] = "done"]
            /\ sres' = [sres EXCEPT !["orchestrator"] = CancelResult(FALSE)]
    /\ UNCHANGED <<busVars, fleet, lifeVars, dispatchVars, cancelVars, allocVars, codecVars, subVars, respondVars, portVars,
                   stask, slog, sstatus, sdrones, sidx, sfail>>

\* _handle_cancel: redis.get_mission, drone_ids from the record if found
CancelGetMission(o) ==
    /\ spc["orchestrator"] = "get_mission"
    /\ Issue(Req("orchestrator", "redis", "redis.get_mission", ""), o)
    /\ cids' = IF o = "ok" /\ sstatus # "none" THEN sdrones ELSE <<>>
    /\ spc' = [spc EXCEPT !["orchestrator"] = "call_abort"]
    /\ UNCHANGED <<busVars, fleet, lifeVars, dispatchVars, allocVars, codecVars, subVars, respondVars, portVars,
                   stask, sstatus, sdrones, sidx, sfail, sres>>

\* _handle_cancel: robot.abort_mission is published; the robot gets it or not
CancelCallAbort(delivered) ==
    /\ spc["orchestrator"] = "call_abort"
    /\ slog' = Append(slog, Req("orchestrator", "robot", "robot.abort_mission", ""))
    /\ spc' = [spc EXCEPT !["orchestrator"] = "wait_abort",
                          !["robot"] = IF delivered THEN AbortEntry(cids) ELSE @]
    /\ sidx' = 1
    /\ UNCHANGED <<busVars, fleet, lifeVars, dispatchVars, cancelVars, allocVars, codecVars, subVars, respondVars, portVars,
                   stask, sstatus, sdrones, sfail, sres>>

\* _handle_cancel: the robot's reply arrives
CancelAbortReply ==
    /\ spc["orchestrator"] = "wait_abort"
    /\ spc["robot"] = "done"
    /\ spc' = [spc EXCEPT !["orchestrator"] = "upd_cancelled"]
    /\ UNCHANGED <<busVars, fleet, lifeVars, dispatchVars, cancelVars, allocVars, codecVars, subVars, respondVars, portVars,
                   stask, slog, sstatus, sdrones, sidx, sfail, sres>>

\* _handle_cancel: no reply from the robot within the timeout
CancelAbortTimeout ==
    /\ spc["orchestrator"] = "wait_abort"
    /\ spc["robot"] # "done"
    /\ cfailed' = cfailed \cup
          {i \in 1..Len(slog) : slog[i].action = "robot.abort_mission"}
    /\ spc' = [spc EXCEPT !["orchestrator"] = "upd_cancelled"]
    /\ UNCHANGED <<busVars, fleet, lifeVars, dispatchVars, cids, allocVars, codecVars, subVars, respondVars, portVars,
                   stask, slog, sstatus, sdrones, sidx, sfail, sres>>

\* _handle_cancel: redis.update_mission(status = cancelled) and return
CancelUpdate(o, late) ==
    /\ spc["orchestrator"] = "upd_cancelled"
    /\ Issue(Req("orchestrator", "redis", "redis.update_mission", "cancelled"), o)
    /\ sstatus' = IF Processed(o, late)
                  THEN UpdatedStatus(sstatus, "cancelled") ELSE sstatus
    /\ spc' = [spc EXCEPT !["orchestrator"] = "done"]
    /\ sres' = [sres EXCEPT !["orchestrator"] = CancelResult(TRUE)]
    /\ UNCHANGED <<busVars, fleet, lifeVars, dispatchVars, cids, allocVars, codecVars, subVars, respondVars, portVars,
                   stask, sdrones, sidx, sfail>>

\* a client publishes robot.abort_mission itself
AbortSubmit(drone_ids) ==
    /\ \A p \in SagaProcs : spc[p] = "idle"
    /\ cids' = drone_ids
    /\ spc' = [spc EXCEPT !["robot"] = AbortEntry(drone_ids)]
    /\ sidx' = 1
    /\ UNCHANGED <<busVars, fleet, lifeVars, dispatchVars, cfailed, allocVars, codecVars, subVars, respondVars, portVars,
                   stask, slog, sstatus, sdrones, sfail, sres>>

\* _handle_abort_mission: abort of drone_ids[sidx] at the drone service
AbortDrone(o) ==
    /\ spc["robot"] = "abort"
    /\ Issue(Req("robot", "drone_service", "abort", cids[sidx]), o)
    /\ spc' = [spc EXCEPT !["robot"] = AfterAbort(o)]
    /\ UNCHANGED <<busVars, fleet, lifeVars, dispatchVars, cids, allocVars, codecVars, subVars, respondVars, portVars,
                   stask, sstatus, sdrones, sidx, sfail, sres>>

\* _handle_abort_mission: emergency_receive of drone_ids[sidx] at the port
AbortEmergencyReceive(o) ==
    /\ spc["robot"] = "emergency_receive"
    /\ Issue(Req("robot", "droneport", "emergency_receive", cids[sidx]), o)
    /\ spc' = [spc EXCEPT !["robot"] = IF sidx < Len(cids) THEN "abort" ELSE "release"]
    /\ sidx' = IF sidx < Len(cids) THEN sidx + 1 ELSE sidx
    /\ UNCHANGED <<busVars, fleet, lifeVars, dispatchVars, cids, allocVars, codecVars, subVars, respondVars, portVars,
                   stask, sstatus, sdrones, sfail, sres>>

\* _handle_abort_mission: fleet.release(drone_ids) and return
AbortRelease(o, late) ==
    /\ spc["robot"] = "release"
    /\ Issue(Req("robot", "fleet", "fleet.release", ""), o)
    /\ fleet' = IF Processed(o, late) THEN ReleaseFleet(fleet, cids) ELSE fleet
    /\ spc' = [spc EXCEPT !["robot"] = "done"]
    /\ sres' = [sres EXCEPT !["robot"] = AbortResult(TRUE, cids)]
    /\ UNCHANGED <<busVars, lifeVars, dispatchVars, cids, allocVars, codecVars, subVars, respondVars, portVars,
                   stask, sstatus, sdrones, sidx, sfail>>

CancelIdle ==
    /\ cids = <<>>
    /\ cfailed = {}

(* ----------------------- redis.allocate_drones --------------------------- *)
\* the statuses a roster entry takes
DroneStatuses == {"available", "reserved", "charging"}

NoAllocation == [allocated_drones |-> <<>>, enough |-> FALSE]
NoRelease == [none |-> TRUE]

\* an id that no roster holds
UnknownDrone == "drone-999"

\* drone_ids a client can pass to redis.release_drones: what the last
\* allocation returned, nothing, or lists with an id outside the roster
ReleaseLists(allocated) ==
    {allocated, <<>>, <<UnknownDrone>>, <<"drone-004", UnknownDrone>>,
     Append(allocated, UnknownDrone)}

\* _handle_allocate_drones is called with required_count
AllocateDrones(required_count) ==
    /\ aprev' = fleet
    /\ areq' = required_count
    /\ ares' = AllocateResult(fleet, required_count)
    /\ fleet' = AllocateFleet(fleet, required_count)
    /\ arel' = NoRelease
    /\ aheld' = aheld \cup SeqToSet(AllocateResult(fleet, required_count).allocated_drones)
    /\ UNCHANGED <<busVars, sagaVars, lifeVars, dispatchVars, cancelVars, codecVars, subVars, respondVars, portVars>>

\* _handle_release_drones is called with drone_ids; after_allocate records
\* that nothing touched the roster since the allocation that returned them
ReleaseDrones(drone_ids) ==
    /\ arel' = [before |-> fleet, drone_ids |-> drone_ids,
                result |-> ReleaseResult(drone_ids),
                after_allocate |-> (areq >= 1 /\ arel = NoRelease
                                    /\ drone_ids = ares.allocated_drones)]
    /\ fleet' = ReleaseFleet(fleet, drone_ids)
    /\ aheld' = aheld \ SeqToSet(drone_ids)
    /\ UNCHANGED <<busVars, sagaVars, lifeVars, dispatchVars, cancelVars, codecVars, subVars, respondVars, portVars,
                   aprev, areq, ares>>

AllocIdle ==
    /\ aprev = initial_fleet
    /\ areq = 0
    /\ ares = NoAllocation
    /\ arel = NoRelease
    /\ aheld = {}

(* ------------------- Message.to_dict / from_dict ------------------------ *)
\* Python values of the fields: a str, a dict, or None
Str(x) == [str |-> x]
Dict(keys) == [dict |-> keys]

MessageFields == {"action", "payload", "sender", "correlation_id", "reply_to",
                  "timestamp"}

\* the Message objects the annotations of the dataclass admit
Messages ==
    [action : {Str(""), Str("ping")},
     payload : {Dict({}), Dict({"mission_id"})},
     sender : {Str(""), Str("gcs_fleet")},
     correlation_id : {None, Str(""), Str("c-1")},
     reply_to : {None, Str("replies.gcs_fleet")},
     timestamp : {Str(""), Str("t0")}]

\* data.get(key, default)
Get(data, key, default) == IF key \in DOMAIN data THEN data[key] ELSE default

\* {k: v for k, v in asdict(self).items() if v is not None}
to_dict(m) == [k \in {f \in DOMAIN m : m[f] # None} |-> m[k]]

\* cls(action=data.get("action", ""), ...); now is the time of decoding
from_dict_blank(data, now) ==
    [action |-> Get(data, "action", Str("")),
     payload |-> Get(data, "payload", Dict({})),
     sender |-> Get(data, "sender", Str("")),
     correlation_id |-> Get(data, "correlation_id", Str("")),
     reply_to |-> Get(data, "reply_to", Str("")),
     timestamp |-> Get(data, "timestamp", now)]

from_dict(data, now) ==
    [action |-> Get(data, "action", Str("")),
     payload |-> Get(data, "payload", Dict({})),
     sender |-> Get(data, "sender", Str("")),
     correlation_id |-> Get(data, "correlation_id", None),
     reply_to |-> Get(data, "reply_to", None),
     timestamp |-> Get(data, "timestamp", now)]

\* the sender encodes the message
Encode ==
    /\ mwire = None
    /\ mwire' = to_dict(mobj)
    /\ UNCHANGED <<busVars, fleet, sagaVars, lifeVars, dispatchVars, cancelVars,
                   allocVars, subVars, respondVars, portVars, mobj, mdec>>

\* the receiver decodes the dict at time now
Decode(now) ==
    /\ mwire # None
    /\ mdec = None
    /\ mdec' = from_dict(mwire, now)
    /\ UNCHANGED <<busVars, fleet, sagaVars, lifeVars, dispatchVars, cancelVars,
                   allocVars, subVars, respondVars, portVars, mobj, mwire>>

CodecIdle ==
    /\ mobj = None
    /\ mwire = None
    /\ mdec = None

(* ------------- subscribe(), start() and the broker's answer -------------- *)
\* no callback under a topic
NoHandler == "none"
\* the callbacks services pass to subscribe()
SubHandlers == {"handler_a", "handler_b"}
\* KafkaSystemBus passes self._handle_reply, MQTTSystemBus `lambda msg: None`
ReplyHandler == IF backend = "kafka" THEN "_handle_reply" ELSE "lambda"

OwnReplyTopic == ReplyTopic("fleet")

\* a bus after __init__: not started, not connected, nothing subscribed;
\* workers counts the consumers that serve a topic (Kafka: consumer threads;
\* MQTT: the subscription the broker holds for the connection)
NewBus ==
    [started |-> FALSE, connected |-> FALSE,
     cb |-> [t \in LifeTopics |-> NoHandler],
     workers |-> [t \in LifeTopics |-> 0]]

NoCall == [op |-> "none"]

CallOutcome(st, ret) == [st |-> st, ret |-> ret]

\* KafkaSystemBus.subscribe; ok: KafkaConsumer() and thread.start() succeed
KafkaSubscribeCall(st, topic, handler, ok) ==
    IF st.cb[topic] # NoHandler
    THEN CallOutcome(st, "true")
    ELSE IF ok
         THEN CallOutcome([st EXCEPT !.cb[topic] = handler,
                                     !.workers[topic] = @ + 1], "true")
         ELSE CallOutcome([st EXCEPT !.cb[topic] = handler], "false")

\* KafkaSystemBus.start; producer_ok: KafkaProducer() could be created
KafkaStartCall(st, producer_ok, ok) ==
    IF st.started
    THEN CallOutcome(st, "none")
    ELSE IF ~producer_ok
         THEN CallOutcome(st, "raised")
         ELSE CallOutcome(
                [KafkaSubscribeCall(st, OwnReplyTopic, ReplyHandler, ok).st
                    EXCEPT !.started = TRUE], "none")

\* MQTTSystemBus.subscribe from `with self._callbacks_lock` on; ok: the
\* result of client.subscribe() is MQTT_ERR_SUCCESS
MqttSubscribeBody(st, topic, handler, ok) ==
    LET s1 == [st EXCEPT !.cb[topic] = handler]
    IN IF st.connected
       THEN IF ok
            THEN CallOutcome([s1 EXCEPT !.workers[topic] = 1], "true")
            ELSE CallOutcome(s1, "false")
       ELSE CallOutcome(s1, "true")

\* _on_connect with rc = 0: every topic that has a callback is subscribed
Resubscribed(st) ==
    [st EXCEPT !.connected = TRUE,
               !.workers = [t \in LifeTopics |->
                              IF st.cb[t] # NoHandler THEN 1 ELSE 0]]

\* MQTTSystemBus.start; connect_ok: the broker accepted within 10 seconds
MqttStartCall(st, connect_ok, ok) ==
    IF st.started
    THEN CallOutcome(st, "none")
    ELSE IF ~connect_ok
         THEN CallOutcome(st, "raised")
         ELSE CallOutcome(
                [MqttSubscribeBody(Resubscribed(st), OwnReplyTopic, ReplyHandler, ok).st
                    EXCEPT !.started = TRUE], "none")

\* MQTTSystemBus.subscribe
MqttSubscribeCall(st, topic, handler, connect_ok, ok) ==
    IF ~st.started /\ topic # OwnReplyTopic
    THEN LET r == MqttStartCall(st, connect_ok, ok)
         IN IF r.ret = "raised" THEN r
            ELSE MqttSubscribeBody(r.st, topic, handler, ok)
    ELSE MqttSubscribeBody(st, topic, handler, ok)

\* KafkaSystemBus.unsubscribe / MQTTSystemBus.unsubscribe
UnsubscribeCall(st, topic) ==
    IF backend = "kafka"
    THEN CallOutcome([st EXCEPT !.cb[topic] = NoHandler, !.workers[topic] = 0], "true")
    ELSE CallOutcome([st EXCEPT !.cb[topic] = NoHandler,
                                !.workers[topic] = IF st.connected THEN 0 ELSE @],
                     "true")

\* KafkaSystemBus.stop / MQTTSystemBus.stop
StopCall(st) == CallOutcome(NewBus, "none")

\* a call on the bus returns (or raises) and leaves the bus in r.st
BusCall(op, topic, handler, r) ==
    /\ bn < MaxCalls
    /\ bn' = bn + 1
    /\ bsub' = r.st
    /\ blast' = [op |-> op, topic |-> topic, handler |-> handler, ret |-> r.ret,
                 before |-> bsub]
    /\ UNCHANGED <<busVars, fleet, sagaVars, lifeVars, dispatchVars, cancelVars,
                   allocVars, codecVars, respondVars, portVars>>

CallStart(up, ok) ==
    BusCall("start", OwnReplyTopic, ReplyHandler,
            IF backend = "kafka" THEN KafkaStartCall(bsub, up, ok)
            ELSE MqttStartCall(bsub, up, ok))

CallSubscribe(topic, handler, up, ok) ==
    BusCall("subscribe", topic, handler,
            IF backend = "kafka" THEN KafkaSubscribeCall(bsub, topic, handler, ok)
            ELSE MqttSubscribeCall(bsub, topic, handler, up, ok))

CallUnsubscribe(topic) ==
    BusCall("unsubscribe", topic, NoHandler, UnsubscribeCall(bsub, topic))

CallStop == BusCall("stop", OwnReplyTopic, NoHandler, StopCall(bsub))

\* _on_disconnect: the connection and the broker's subscriptions are gone
Disconnected ==
    /\ backend = "mqtt"
    /\ bsub.connected
    /\ bsub' = [bsub EXCEPT !.connected = FALSE,
                            !.workers = [t \in LifeTopics |-> 0]]
    /\ blast' = NoCall
    /\ UNCHANGED <<bn, busVars, fleet, sagaVars, lifeVars, dispatchVars, cancelVars,
                   allocVars, codecVars, respondVars, portVars>>

\* the network loop reconnects and _on_connect runs
Reconnected ==
    /\ backend = "mqtt"
    /\ bsub.started /\ ~bsub.connected
    /\ bsub' = Resubscribed(bsub)
    /\ blast' = NoCall
    /\ UNCHANGED <<bn, busVars, fleet, sagaVars, lifeVars, dispatchVars, cancelVars,
                   allocVars, codecVars, respondVars, portVars>>

SubIdle ==
    /\ bsub = NewBus
    /\ blast = NoCall
    /\ bn = 0

(* ------------------- BaseSystem.start / stop on the bus ------------------ *)
\* bus.start() of the selected backend
StartCall(st, up, ok) ==
    IF backend = "kafka" THEN KafkaStartCall(st, up, ok)
    ELSE MqttStartCall(st, up, ok)

SubscribeCall(st, topic, handler, up, ok) ==
    IF backend = "kafka" THEN KafkaSubscribeCall(st, topic, handler, ok)
    ELSE MqttSubscribeCall(st, topic, handler, up, ok)

\* self._running = True follows bus.subscribe() whatever it returned
RunningAfterSubscribe(running, ret) == TRUE

\* BaseSystem.start: bus.start() (an exception leaves start() there), then
\* bus.subscribe(self.topic, self._handle_message), then _running = True
SystemStartCall(st, running, up, ok_reply, ok) ==
    LET started == StartCall(st, up, ok_reply)
        subscribed == SubscribeCall(started.st, GCS_FLEET, "_handle_message", up, ok)
    IN IF started.ret = "raised"
       THEN [st |-> started.st, ret |-> "raised", running |-> running]
       ELSE [st |-> subscribed.st, ret |-> subscribed.ret,
             running |-> RunningAfterSubscribe(running, subscribed.ret)]

\* BaseSystem.stop: _running = False, bus.unsubscribe(self.topic), bus.stop()
SystemStopCall(st) ==
    [st |-> StopCall(UnsubscribeCall(st, GCS_FLEET).st).st, ret |-> "none",
     running |-> FALSE]

SystemCall(op, r) ==
    /\ bn < MaxCalls
    /\ bn' = bn + 1
    /\ bsub' = r.st
    /\ lrunning' = r.running
    /\ blast' = [op |-> op, topic |-> GCS_FLEET, handler |-> "_handle_message",
                 ret |-> r.ret, before |-> bsub]
    /\ UNCHANGED <<busVars, fleet, sagaVars, lstarted, lcb, lworkers, lerr, lhist,
                   dispatchVars, cancelVars, allocVars, codecVars, respondVars,
                   portVars>>

SystemStart(up, ok_reply, ok) ==
    SystemCall("system.start", SystemStartCall(bsub, lrunning, up, ok_reply, ok))

SystemStop == SystemCall("system.stop", SystemStopCall(bsub))

(* --------------------------- SystemBus.respond --------------------------- *)
\* messages a handler can be answering: with or without reply_to and
\* correlation_id
RespondOriginals ==
    {Message(GCS_FLEET, action, "client", correlation_id, reply_to, "absent", <<>>) :
        action \in {"ping", "get_status", "fleet.allocate"},
        correlation_id \in {NoCid, CidBase("client") + 1},
        reply_to \in {NoTopic} \cup {ReplyTopic(b) : b \in Buses}}

RespondPayloads == {<<>>, PingResult("gcs_fleet"), ReleaseResult(<<"drone-001">>)}

NoRespond == [none |-> TRUE]

\* respond(original_message, response_payload): what is handed to publish()
\* and what is returned; ok is the result of publish()
RespondCall(original_message, response_payload, ok) ==
    IF original_message.reply_to = NoTopic
    THEN [sent |-> <<>>, ret |-> FALSE]
    ELSE [sent |-> <<respond(original_message, response_payload, "response")>>,
          ret |-> ok]

Respond(original_message, response_payload, ok) ==
    /\ rlast' = [original |-> original_message, payload |-> response_payload,
                 out |-> RespondCall(original_message, response_payload, ok)]
    /\ UNCHANGED <<busVars, fleet, sagaVars, lifeVars, dispatchVars, cancelVars,
                   allocVars, codecVars, subVars, portVars>>

RespondIdle == rlast = NoRespond

(* ---------------------------- DroneSimulator ----------------------------- *)
\* battery levels are whole percents and distances multiples of ten metres, so
\* that the d * 0.1 percent a move of d metres consumes is a whole number
MinTakeoffBattery == 20

SimStatuses == {"idle", "taking_off", "flying", "landing", "landed", "charging",
                "maintenance", "error"}

InitialBatteries == {0, 15, 19, 20, 100}
Altitudes == {10, 20}
MoveTargets == {20, 910}
Drains == {0, 30}
ChargeTargets == {50, 100}
DroneportIds == {None, Str("droneport_001")}

\* the _state dict after __init__; last_update counts the time.time() stamps
NewDrone(initial_battery) ==
    [status |-> "idle", battery |-> initial_battery,
     position |-> [x |-> 0, y |-> 0, z |-> 0], altitude |-> 0, speed |-> 0,
     last_update |-> 0, flight_time |-> 0, total_flights |-> 0,
     is_at_droneport |-> TRUE, droneport_id |-> None]

Max(a, b) == IF a >= b THEN a ELSE b

_update_battery(st, consumption) ==
    IF st.status = "charging"
    THEN [st EXCEPT !.battery = IF @ + 1 <= 100 THEN @ + 1 ELSE 100]
    ELSE IF st.status \in {"flying", "taking_off"}
    THEN LET drained == [st EXCEPT !.battery = Max(0, @ - consumption)]
         IN IF drained.battery <= 0
            THEN [drained EXCEPT !.status = "error", !.battery = 0]
            ELSE drained
    ELSE st

BatteryNeverTooLow(battery) == FALSE

BatteryTooLow(battery) == battery < MinTakeoffBattery

\* takeoff(altitude): the state it leaves and the dict it returns
takeoff(st, altitude) ==
    IF st.status \notin {"idle", "landed"}
    THEN [state |-> st,
          result |-> [success |-> FALSE, error |-> "Cannot takeoff from status",
                      current_status |-> st.status]]
    ELSE IF BatteryTooLow(st.battery)
    THEN [state |-> st,
          result |-> [success |-> FALSE, error |-> "Battery too low for takeoff",
                      battery |-> st.battery]]
    ELSE LET taking_off == [st EXCEPT !.status = "taking_off", !.altitude = 0,
                                      !.speed = 0, !.is_at_droneport = FALSE]
             flying == [taking_off EXCEPT !.status = "flying",
                                          !.altitude = altitude,
                                          !.position.z = altitude,
                                          !.last_update = @ + 1,
                                          !.total_flights = @ + 1]
         IN [state |-> flying,
             result |-> [success |-> TRUE, status |-> flying.status,
                         altitude |-> flying.altitude,
                         position |-> flying.position,
                         battery |-> flying.battery]]

\* land(position=None, droneport_id)
land(st, droneport_id) ==
    IF st.status \notin {"flying", "taking_off"}
    THEN [state |-> st,
          result |-> [success |-> FALSE, error |-> "Cannot land from status",
                      current_status |-> st.status]]
    ELSE LET landed == [st EXCEPT !.status = "landed", !.altitude = 0,
                                  !.position.z = 0, !.speed = 0,
                                  !.is_at_droneport = (droneport_id # None),
                                  !.droneport_id = droneport_id,
                                  !.last_update = @ + 1]
         IN [state |-> landed,
             result |-> [success |-> TRUE, status |-> landed.status,
                         position |-> landed.position,
                         battery |-> landed.battery,
                         droneport_id |-> droneport_id]]

\* move({"z": z}, speed=5.0): x and y default to the current position, so the
\* distance flown is the change of z
move(st, z) ==
    IF st.status # "flying"
    THEN [state |-> st,
          result |-> [success |-> FALSE, error |-> "Cannot move from status",
                      current_status |-> st.status]]
    ELSE LET old_position == st.position
             moved == [st EXCEPT !.position.z = z, !.altitude = z, !.speed = 5,
                                 !.last_update = @ + 1]
             distance == IF z >= old_position.z THEN z - old_position.z
                         ELSE old_position.z - z
             battery_consumption == distance \div 10
             after == _update_battery(moved, battery_consumption)
         IN [state |-> after,
             result |-> [success |-> TRUE, position |-> after.position,
                         battery |-> after.battery, speed |-> after.speed]]

\* charge(target_level): the loop adds one percent per round while the level
\* is below the target, then the level is set to the target
charge(st, target_level) ==
    IF st.status \notin {"landed", "idle"}
    THEN [state |-> st,
          result |-> [success |-> FALSE, error |-> "Cannot charge from status",
                      current_status |-> st.status]]
    ELSE IF ~st.is_at_droneport
    THEN [state |-> st,
          result |-> [success |-> FALSE,
                      error |-> "Drone must be at droneport to charge",
                      is_at_droneport |-> st.is_at_droneport]]
    ELSE LET charged == [st EXCEPT !.battery = target_level,
                                   !.last_update = @ + 1]
         IN [state |-> charged,
             result |-> [success |-> TRUE, battery |-> charged.battery,
                         status |-> charged.status]]

\* get_state(): in flight the battery drains with the time that passed
get_state(st, drain) ==
    IF st.status = "flying" /\ drain > 0
    THEN [_update_battery(st, drain) EXCEPT !.last_update = @ + 1]
    ELSE st

NoSimCall == [op |-> "none"]

SimCall(op, arg, out) ==
    /\ out.state.last_update <= MaxClock
    /\ dport' = [dport EXCEPT
                    !.sim = out.state,
                    !.simlast = [op |-> op, arg |-> arg, before |-> sim,
                                 result |-> out.result]]
    /\ UNCHANGED <<busVars, fleet, sagaVars, lifeVars, dispatchVars, cancelVars,
                   allocVars, codecVars, subVars, respondVars>>

Takeoff(altitude) == SimCall("takeoff", altitude, takeoff(sim, altitude))
Land(droneport_id) == SimCall("land", droneport_id, land(sim, droneport_id))
Move(z) == SimCall("move", z, move(sim, z))
Charge(target_level) == SimCall("charge", target_level, charge(sim, target_level))
GetState(drain) ==
    SimCall("get_state", drain,
            [state |-> get_state(sim, drain), result |-> get_state(sim, drain)])

(* ------------------------ PortManager, StateStore ------------------------ *)
PortIds == {"P-01", "P-02"}
PortDrones == {"D-001", "D-002"}

\* hgetall of a key that was never written
NoRecord == <<>>

\* the methods class StateStore defines
StateStoreMethods == {"save_drone", "get_drone", "list_drones", "reserve_port",
                      "release_port"}

\* self.state.<method>: an attribute the class does not define raises
Lookup(method) ==
    IF method \in StateStoreMethods THEN "found" ELSE "AttributeError"

\* a port record that holds a drone
Occupied(ports, port_id) ==
    ports[port_id] # NoRecord /\ ports[port_id].status = "reserved"

\* reserve_slot(drone_id, port_id, mission_window): its first statement calls
\* self.state.is_port_occupied; the statements after it are not reached when
\* that lookup raises
reserve_slot(ports, drones, drone_id, port_id) ==
    IF Lookup("is_port_occupied") # "found"
    THEN [raised |-> Lookup("is_port_occupied"), result |-> None,
          ports |-> ports, drones |-> drones]
    ELSE IF Occupied(ports, port_id)
    THEN [raised |-> "none",
          result |-> [status |-> "rejected", reason |-> "Port is already occupied",
                      error_code |-> "PORT_RESOURCE_BUSY", retryable |-> FALSE],
          ports |-> ports, drones |-> drones]
    ELSE IF Lookup("save_port") # "found"
    THEN [raised |-> Lookup("save_port"), result |-> None,
          ports |-> ports, drones |-> drones]
    ELSE [raised |-> "none",
          result |-> [status |-> "reserved", port_id |-> port_id,
                      drone_id |-> drone_id],
          ports |-> [ports EXCEPT ![port_id] =
                        [port_id |-> port_id, drone_id |-> drone_id,
                         status |-> "reserved"]],
          drones |-> [drones EXCEPT ![drone_id] =
                        [drone_id |-> drone_id, port_id |-> port_id,
                         status |-> "reserved"]]]

\* release_for_takeoff(drone_id): get_drone is hgetall of drone:<id>
release_for_takeoff(ports, drones, drone_id) ==
    IF drones[drone_id] = NoRecord
    THEN [raised |-> "none",
          result |-> [status |-> "failed", reason |-> "Drone not found"],
          ports |-> ports, drones |-> drones]
    ELSE IF Lookup("save_port") # "found"
    THEN [raised |-> Lookup("save_port"), result |-> None,
          ports |-> ports, drones |-> drones]
    ELSE [raised |-> "none",
          result |-> [status |-> "release_ack", drone_id |-> drone_id],
          ports |-> [ports EXCEPT ![drones[drone_id].port_id] =
                        [port_id |-> drones[drone_id].port_id, drone_id |-> "",
                         status |-> "free"]],
          drones |-> [drones EXCEPT ![drone_id] = NoRecord]]

NoPortCall == [op |-> "none"]

PortCall(op, drone_id, port_id, out) ==
    /\ dport' = [dport EXCEPT
                    !.pports = out.ports,
                    !.pdrones = out.drones,
                    !.plast = [op |-> op, drone_id |-> drone_id, port_id |-> port_id,
                               ports |-> pports, drones |-> pdrones,
                               raised |-> out.raised, result |-> out.result]]
    /\ UNCHANGED <<busVars, fleet, sagaVars, lifeVars, dispatchVars, cancelVars,
                   allocVars, codecVars, subVars, respondVars>>

ReserveSlot(drone_id, port_id) ==
    PortCall("reserve_slot", drone_id, port_id,
             reserve_slot(pports, pdrones, drone_id, port_id))

ReleaseForTakeoff(drone_id) ==
    PortCall("release_for_takeoff", drone_id, "",
             release_for_takeoff(pports, pdrones, drone_id))

\* no simulator constructed, an empty store, no call made
NewPort(simulator) ==
    [sim |-> simulator, simlast |-> NoSimCall,
     pports |-> [p \in PortIds |-> NoRecord],
     pdrones |-> [d \in PortDrones |-> NoRecord],
     plast |-> NoPortCall]

PortIdle == dport = NewPort(None)

LifeIdle ==
    /\ lstarted = FALSE
    /\ lrunning = FALSE
    /\ lcb = NoSubscriptions
    /\ lworkers = NoSubscriptions
    /\ lerr = FALSE
    /\ lhist = <<>>

\* the state before anything was submitted, started or dispatched
ExtIdle == LifeIdle /\ DispatchIdle /\ CancelIdle /\ AllocIdle /\ CodecIdle
           /\ SubIdle /\ RespondIdle /\ PortIdle

BusIdle ==
    /\ backend \in Backends
    /\ net = {}
    /\ dups = 0
    /\ pending = [b \in Buses |-> {}]
    /\ future = <<>>
    /\ nextCid = [b \in Buses |-> CidBase(b) + 1]
    /\ rpc = [t \in Threads |-> "idle"]
    /\ rcid = [t \in Threads |-> NoCid]
    /\ rreq = [t \in Threads |-> NoMsg]
    /\ rres = [t \in Threads |-> None]
    /\ rout = [t \in Threads |-> "none"]
    /\ cur = NoMsg
    /\ handled = <<>>
    /\ resolutions = <<>>
    /\ discarded = {}

(* ---------------------------- specification ----------------------------- *)
Init ==
    /\ backend \in Backends
    /\ net = {}
    /\ dups = 0
    /\ pending = [b \in Buses |-> {}]
    /\ future = <<>>
    /\ nextCid = [b \in Buses |-> CidBase(b) + 1]
    /\ rpc = [t \in Threads |-> "idle"]
    /\ rcid = [t \in Threads |-> NoCid]
    /\ rreq = [t \in Threads |-> NoMsg]
    /\ rres = [t \in Threads |-> None]
    /\ rout = [t \in Threads |-> "none"]
    /\ cur = NoMsg
    /\ fleet = initial_fleet
    /\ handled = <<>>
    /\ resolutions = <<>>
    /\ discarded = {}
    /\ SagaIdle
    /\ ExtIdle

Next ==
    \/ \E c \in Callers : ClientRequest(c)
    \/ \E t \in Threads : ReqResult(t)
    \/ \E t \in Threads : ReqTimeout(t)
    \/ \E t \in Threads : ReqEvict(t)
    \/ \E b \in Buses, m \in net, again \in BOOLEAN : DeliverReply(b, m, again)
    \/ \E m \in net, again \in BOOLEAN : DeliverFleet(m, again)
    \/ \E m \in net, again \in BOOLEAN : DeliverRedis(m, again)
    \/ FleetFinish

Spec == Init /\ [][Next]_vars

\* the bus without repeated deliveries, for what must eventually happen
NextLive ==
    \/ \E c \in Callers : ClientRequest(c)
    \/ \E t \in Threads : ReqResult(t)
    \/ \E t \in Threads : ReqTimeout(t)
    \/ \E t \in Threads : ReqEvict(t)
    \/ \E b \in Buses, m \in net : DeliverReply(b, m, FALSE)
    \/ \E m \in net : DeliverFleet(m, FALSE)
    \/ \E m \in net : DeliverRedis(m, FALSE)
    \/ FleetFinish

\* future.result(timeout) ends after at most `timeout` seconds, with the
\* value or with TimeoutError, and the except branch then runs
RequestFairness ==
    \A t \in Threads :
       /\ WF_vars(ReqResult(t) \/ ReqTimeout(t))
       /\ WF_vars(ReqEvict(t))

SpecLive == Init /\ [][NextLive]_vars /\ RequestFairness

InitSaga ==
    /\ backend \in Backends
    /\ net = {}
    /\ dups = 0
    /\ pending = [b \in Buses |-> {}]
    /\ future = <<>>
    /\ nextCid = [b \in Buses |-> CidBase(b) + 1]
    /\ rpc = [t \in Threads |-> "idle"]
    /\ rcid = [t \in Threads |-> NoCid]
    /\ rreq = [t \in Threads |-> NoMsg]
    /\ rres = [t \in Threads |-> None]
    /\ rout = [t \in Threads |-> "none"]
    /\ cur = NoMsg
    /\ handled = <<>>
    /\ resolutions = <<>>
    /\ discarded = {}
    /\ fleet \in SagaRosters
    /\ SagaIdle
    /\ ExtIdle

NextSaga ==
    \/ \E count \in 1..MaxDrones, o \in Outcomes, late \in BOOLEAN :
          MissionSave(count, o, late)
    \/ MissionCallPlan
    \/ MissionPlanReply
    \/ MissionPlanTimeout
    \/ \E o \in Outcomes, late \in BOOLEAN : OrchAllocate(o, late)
    \/ \E o \in Outcomes, late \in BOOLEAN : OrchUpdate(o, late)
    \/ OrchCallRobot
    \/ OrchRobotReply
    \/ OrchRobotTimeout
    \/ \E o \in PortOutcomes : RobotPortStep(o)
    \/ \E o \in Outcomes : RobotDroneStep(o)
    \/ \E o \in Outcomes, late \in BOOLEAN : RobotUpdate(o, late)

SpecSaga == InitSaga /\ [][NextSaga]_vars

InitLife ==
    /\ BusIdle
    /\ fleet = initial_fleet
    /\ SagaIdle
    /\ ExtIdle

NextLife ==
    \/ StartBus
    \/ StopBus
    \/ StartSystem
    \/ StopSystem

SpecLife == InitLife /\ [][NextLife]_vars

InitDispatch ==
    /\ BusIdle
    /\ fleet \in SagaRosters
    /\ SagaIdle
    /\ ExtIdle

NextDispatch ==
    \/ \E svc \in Services :
          \E msg \in Incoming(svc), beh \in {"none", "returns", "unavailable",
                                            "returns_empty", "returns_none",
                                            "raises", "raises_blank"} :
             Dispatch(svc, msg, beh)
    \/ MarkRunning

SpecDispatch == InitDispatch /\ [][NextDispatch]_vars

InitCancel ==
    /\ BusIdle
    /\ \E m \in StoredMissions :
          /\ sstatus = m.status
          /\ sdrones = m.assigned_drones
          /\ fleet = RosterHolding(m.assigned_drones)
    /\ spc = [p \in SagaProcs |-> "idle"]
    /\ stask = 0
    /\ slog = <<>>
    /\ sidx = 0
    /\ sfail = NoFail
    /\ sres = [p \in SagaProcs |-> None]
    /\ ExtIdle

NextCancel ==
    \/ \E has_id \in BOOLEAN : CancelSubmit(has_id)
    \/ \E o \in Outcomes : CancelGetMission(o)
    \/ \E delivered \in BOOLEAN : CancelCallAbort(delivered)
    \/ CancelAbortReply
    \/ CancelAbortTimeout
    \/ \E o \in Outcomes, late \in BOOLEAN : CancelUpdate(o, late)
    \/ \E n \in 0..MaxDrones : AbortSubmit(SubSeq(DroneOrder, 1, n))
    \/ \E o \in Outcomes : AbortDrone(o)
    \/ \E o \in Outcomes : AbortEmergencyReceive(o)
    \/ \E o \in Outcomes, late \in BOOLEAN : AbortRelease(o, late)

SpecCancel == InitCancel /\ [][NextCancel]_vars

InitAlloc ==
    /\ BusIdle
    /\ fleet \in [DroneIds -> DroneStatuses]
    /\ SagaIdle
    /\ LifeIdle
    /\ DispatchIdle
    /\ CancelIdle
    /\ CodecIdle
    /\ SubIdle
    /\ RespondIdle
    /\ PortIdle
    /\ aprev = fleet
    /\ areq = 0
    /\ ares = NoAllocation
    /\ arel = NoRelease
    /\ aheld = {}

NextAlloc ==
    \E required_count \in 1..MaxRequired : AllocateDrones(required_count)

SpecAlloc == InitAlloc /\ [][NextAlloc]_vars

NextRelease ==
    \/ \E required_count \in 1..MaxRequired : AllocateDrones(required_count)
    \/ \E drone_ids \in ReleaseLists(ares.allocated_drones) : ReleaseDrones(drone_ids)

SpecRelease == InitAlloc /\ [][NextRelease]_vars

InitCodec ==
    /\ BusIdle
    /\ fleet = initial_fleet
    /\ SagaIdle
    /\ LifeIdle
    /\ DispatchIdle
    /\ CancelIdle
    /\ AllocIdle
    /\ SubIdle
    /\ RespondIdle
    /\ PortIdle
    /\ mobj \in Messages
    /\ mwire = None
    /\ mdec = None

NextCodec ==
    \/ Encode
    \/ Decode(Str("t1"))

SpecCodec == InitCodec /\ [][NextCodec]_vars

InitSub ==
    /\ BusIdle
    /\ fleet = initial_fleet
    /\ SagaIdle
    /\ ExtIdle

NextSub ==
    \/ \E up, ok \in BOOLEAN : CallStart(up, ok)
    \/ \E topic \in LifeTopics, handler \in SubHandlers, up, ok \in BOOLEAN :
          CallSubscribe(topic, handler, up, ok)
    \/ \E topic \in LifeTopics : CallUnsubscribe(topic)
    \/ CallStop
    \/ Disconnected
    \/ Reconnected

SpecSub == InitSub /\ [][NextSub]_vars

InitRespond ==
    /\ BusIdle
    /\ fleet = initial_fleet
    /\ SagaIdle
    /\ ExtIdle

NextRespond ==
    \E original_message \in RespondOriginals, response_payload \in RespondPayloads,
       ok \in BOOLEAN :
       Respond(original_message, response_payload, ok)

SpecRespond == InitRespond /\ [][NextRespond]_vars



InitPort ==
    /\ BusIdle
    /\ fleet = initial_fleet
    /\ SagaIdle
    /\ LifeIdle /\ DispatchIdle /\ CancelIdle /\ AllocIdle /\ CodecIdle
    /\ SubIdle /\ RespondIdle
    /\ dport \in {NewPort(NewDrone(initial_battery)) :
                     initial_battery \in InitialBatteries}

NextPort ==
    \/ \E altitude \in Altitudes : Takeoff(altitude)
    \/ \E droneport_id \in DroneportIds : Land(droneport_id)
    \/ \E z \in MoveTargets : Move(z)
    \/ \E target_level \in ChargeTargets : Charge(target_level)
    \/ \E drain \in Drains : GetState(drain)
    \/ \E drone_id \in PortDrones, port_id \in PortIds : ReserveSlot(drone_id, port_id)
    \/ \E drone_id \in PortDrones : ReleaseForTakeoff(drone_id)

SpecPort == InitPort /\ [][NextPort]_vars

InitSys ==
    /\ BusIdle
    /\ fleet = initial_fleet
    /\ SagaIdle
    /\ ExtIdle

\* the service's own calls, and what the connection does under it
NextSys ==
    \/ \E up, ok_reply, ok \in BOOLEAN : SystemStart(up, ok_reply, ok)
    \/ SystemStop
    \/ Disconnected
    \/ Reconnected

SpecSys == InitSys /\ [][NextSys]_vars

NextSelf ==
    \/ SelfRequest
    \/ SelfDone
    \/ \E c \in Callers : ClientRequest(c)
    \/ \E t \in Threads : ReqResult(t)
    \/ \E t \in Threads : ReqTimeout(t)
    \/ \E t \in Threads : ReqEvict(t)
    \/ \E b \in Buses, m \in net : DeliverReply(b, m, FALSE)
    \/ \E m \in net : DeliverFleet(m, FALSE)
    \/ \E m \in net : DeliverRedis(m, FALSE)
    \/ FleetFinish

SpecSelf == Init /\ [][NextSelf]_vars

\* redis.allocate_drones with any integer required_count
NextAllocAny ==
    \/ \E required_count \in (0 - MaxRequired)..MaxRequired :
          AllocateDrones(required_count)
    \/ \E drone_ids \in ReleaseLists(ares.allocated_drones) : ReleaseDrones(drone_ids)

SpecAllocAny == InitAlloc /\ [][NextAllocAny]_vars

(* ------------------- claims: request/reply substrate -------------------- *)
Returned(t, why) == rpc[t] = "returned" /\ rout[t] = why

\* C1: a request() whose matching reply the dispatcher delivers before the
\* timeout fires returns that reply; the reply carries the correlation id
\* request() stamped on the outgoing message and, as payload, exactly a result
\* the target's handler returned for that request.
C1_ReplyIsHandlersResult ==
    /\ [](\A t \in Threads :
            Returned(t, "reply") =>
               /\ rres[t].correlation_id = rcid[t]
               /\ rres[t].correlation_id = rreq[t].correlation_id
               /\ rres[t].payload \in Handled(rcid[t]))
    /\ [][\A t \in Threads :
            (rpc[t] = "waiting" /\ future[rcid[t]] # Unset) =>
               \/ rpc'[t] = "waiting"
               \/ rpc'[t] = "returned" /\ rres'[t] = future[rcid[t]]]_vars

\* C1 witness: the allocating caller got the fleet's reply with the drone the
\* RedisComponent reserved for it
C1_Witness ==
    /\ Returned("c1", "reply")
    /\ rres["c1"].success = "true"
    /\ rres["c1"].payload.enough
    /\ rres["c1"].payload.allocated_drones # <<>>

\* C2: a request() that times out returns None with its correlation id out of
\* _pending_requests, and a reply for that id that arrives afterwards is
\* dropped: it completes no future and changes no call's result.
C2_TimeoutEvicts ==
    /\ [](\A t \in Threads :
            Returned(t, "timeout") =>
               rres[t] = None /\ rcid[t] \notin pending[BusOf(t)])
    /\ [][\A t \in Threads :
            (Returned(t, "timeout") /\ rout'[t] = "timeout") =>
               /\ future'[rcid[t]] = future[rcid[t]]
               /\ Resolutions(rcid[t])' = Resolutions(rcid[t])
               /\ rres'[t] = rres[t]]_vars
    /\ [][\A k \in DOMAIN future :
            future'[k] # future[k] => \E b \in Buses : k \in pending[b]]_vars

\* C2 witness: a caller timed out and the late reply was dropped afterwards
C2_Witness ==
    \E c \in Callers :
        /\ Returned(c, "timeout")
        /\ rcid[c] \in discarded
        /\ future[rcid[c]] = Unset

\* C3: with several request() calls outstanding on one bus, a future is only
\* ever completed with a reply stamped with its own correlation id, and no
\* call returns a reply stamped with another call's id.
C3_NoCrossResolve ==
    /\ \A k \in DOMAIN future :
          future[k] # Unset => future[k].correlation_id = k
    /\ \A t, u \in Threads :
          (Returned(t, "reply") /\ t # u /\ rcid[u] # NoCid) =>
             rres[t].correlation_id # rcid[u]

\* C3 witness: both callers were outstanding on the client bus and the one
\* that registered later has its reply while the earlier one still waits
C3_Witness ==
    \E c, d \in Callers :
        /\ rcid[c] > rcid[d] /\ rcid[d] # NoCid
        /\ Returned(c, "reply")
        /\ rpc[d] = "waiting" /\ rcid[d] \in pending["client"]

\* C8: set_result() is called at most once for a correlation id, whatever
\* replies are delivered again, and the id the next request() registers is
\* not the id of an entry that is still pending.
C8_ResolvedAtMostOnce ==
    /\ \A k \in DOMAIN future : Resolutions(k) <= 1
    /\ \A b \in Buses : FreshCid(b) \notin pending[b]

\* C8 witness: a reply came again for an id that had been resolved and was
\* dropped
C8_Witness ==
    \E k \in discarded : Resolutions(k) = 1 /\ future[k] # Unset

\* C9: when publish() of the request fails, request() has returned None by
\* the end of that step, without entering the wait, and its id is not in
\* _pending_requests.
C9_PublishFailureReturns ==
    \A t \in Threads :
        rout[t] = "publish_failed" =>
           /\ rpc[t] = "returned"
           /\ rres[t] = None
           /\ rcid[t] \notin pending[BusOf(t)]
           /\ future[rcid[t]] = Unset

\* C9 witness: the publish of a caller's request failed
C9_Witness == \E c \in Callers : Returned(c, "publish_failed")

\* C10: the result request() reports on a timeout differs from the result it
\* reports when the publish failed.
C10_TimeoutDistinctFromTransportFailure ==
    \A t, u \in Threads :
        (Returned(t, "timeout") /\ Returned(u, "publish_failed")) =>
           rres[t] # rres[u]

\* C7: while a call is blocked in request() the worker that delivers the bus's
\* reply topic is free, so the matching reply can be dispatched; a handler
\* that calls request() can therefore receive its reply.
C7_WaiterDoesNotBlockDelivery ==
    \A t \in Threads :
        rpc[t] = "waiting" => WorkerFree(BusOf(t), ReplyTopic(BusOf(t)))

(* ------------------------ claims about the mission ----------------------- *)
\* every handler of the mission has returned
SagaQuiet ==
    /\ spc["mission"] = "done"
    /\ spc["orchestrator"] \in {"idle", "done"}
    /\ spc["robot"] \in {"idle", "done"}

\* the requests issued before the first failing step, which all succeeded
BeforeFailure == 1..(sfail.at - 1)
AfterFailure == (sfail.at + 1)..Len(slog)

\* C4: when a step of the mission failed or timed out, then once the handlers
\* have returned the mission's status is failed, a fleet release was issued
\* if drones had been allocated, a request that is none of the forward steps
\* went to the drone port if slots had been reserved, and an abort went to
\* every drone that had been armed.
C4_FailureIsCompensated ==
    (SagaQuiet /\ sfail # NoFail) =>
       /\ sstatus = "failed"
       /\ (\E i \in BeforeFailure : slog[i].action = "fleet.allocate") =>
             (\E j \in AfterFailure : slog[j].action = "fleet.release")
       /\ (\E i \in BeforeFailure : slog[i].action = "reserve_slots") =>
             (\E j \in AfterFailure :
                 slog[j].to = "droneport" /\ slog[j].action \notin SeqToSet(PortSteps))
       /\ \A i \in BeforeFailure :
             slog[i].action = "arm" =>
                (\E j \in AfterFailure :
                    slog[j].action = "abort" /\ slog[j].arg = slog[i].arg)

\* the requests that are steps of the mission
StepActions == {"fleet.allocate"} \cup SeqToSet(PortSteps) \cup SeqToSet(DroneSteps)

\* C5: after the first step that returned an error reply, a rejection or
\* timed out, no request for a later step of the mission is issued.
C5_FailureHaltsProgress ==
    sfail # NoFail =>
       \A j \in AfterFailure : slog[j].action \notin StepActions

\* the robot stopped because the takeoff request for drone_id timed out
TakeoffTimedOut(drone_id) ==
    /\ sres["robot"] # None
    /\ ~sres["robot"].started
    /\ sres["robot"].error = StepTimeout("takeoff", drone_id)

\* C6: when the takeoff request for a drone timed out, then once the handlers
\* have returned the mission's status is failed, an abort for that drone was
\* issued to the drone service, and the result handed to the public caller
\* names takeoff as the step that failed.
C6_TakeoffTimeoutHandled ==
    \A drone_id \in DroneIds :
        (SagaQuiet /\ TakeoffTimedOut(drone_id)) =>
           /\ sstatus = "failed"
           /\ \E j \in 1..Len(slog) :
                 /\ slog[j].to = "drone_service"
                 /\ slog[j].action = "abort"
                 /\ slog[j].arg = drone_id
           /\ sres["mission"].error[1] = "takeoff"

(* ----------------------- claims: start() and stop() ---------------------- *)
\* C11: whatever start() and stop() calls are made on a bus and on the
\* BaseSystem that owns it, repeated ones included, none of them raises and
\* no topic ever has more than one registered callback or more than one
\* consumer worker.
C11_StartStopIdempotent ==
    /\ ~lerr
    /\ \A t \in LifeTopics : lcb[t] <= 1 /\ lworkers[t] <= 1

\* C11 witness: the service was started twice and then stopped twice
C11_Witness ==
    /\ lhist = <<"system.start", "system.start", "system.stop", "system.stop">>
    /\ ~lstarted /\ ~lrunning

(* --------------------- claims: _handle_message -------------------------- *)
\* the last message was a request() of a client
Stamped(d) == d.msg # NoMsg /\ d.msg.reply_to # NoTopic

\* C12: a message whose action has no handler makes _handle_message raise
\* nothing and invoke no handler, and the worker goes on; with reply_to it
\* publishes exactly one message, an error reply to reply_to carrying the
\* request's correlation_id, and without reply_to it publishes nothing.
C12_UnknownActionAnswered ==
    (dlast.msg # NoMsg /\ dlast.msg.action # ""
        /\ dlast.msg.action \notin Handlers(dlast.svc)) =>
       /\ ~dlast.propagated
       /\ dlast.invoked = "none"
       /\ dalive
       /\ IF Stamped(dlast)
          THEN \E m \in dlast.pub :
                  /\ dlast.pub = {m}
                  /\ m.topic = dlast.msg.reply_to
                  /\ m.correlation_id = dlast.msg.correlation_id
                  /\ m.action = "error"
          ELSE dlast.pub = {}

\* C12 witness: the second message of a service was a request for an action
\* it has no handler for, and it was answered
C12_Witness ==
    /\ dq = MaxMsgs
    /\ Stamped(dlast)
    /\ dlast.msg.action = "bogus"
    /\ dlast.pub # {}

C14_PingAndStatusEverywhere ==
    (Stamped(dlast) /\ ~Raises(dlast.beh)) =>
       /\ dlast.msg.action = "ping" =>
             \E m \in dlast.pub : m.payload = [pong |-> TRUE, system_id |-> dlast.svc]
       /\ dlast.msg.action = "get_status" =>
             \E m \in dlast.pub :
                /\ {"handlers", "running"} \subseteq DOMAIN m.payload
                /\ m.payload.handlers = Handlers(dlast.svc)

(* ------------------- claims: the order of the mission -------------------- *)
\* the requests of the mission's sequence among those issued, as
\* <<action, argument>>: the steps and the update of the record to planned
InSequence(e) ==
    \/ e.action \in StepActions
    \/ e.action = "redis.update_mission" /\ e.arg = "planned"

IssuedSequence ==
    LET issued == SelectSeq(slog, InSequence)
    IN [i \in 1..Len(issued) |-> <<issued[i].action, issued[i].arg>>]

\* the order the mission prescribes for the assigned drones
PrescribedSequence(drone_ids) ==
    <<  <<"fleet.allocate", "">>, <<"redis.update_mission", "planned">>,
        <<"reserve_slots", "">>, <<"preflight_check", "">>,
        <<"charge_to_threshold", "">>, <<"release_for_takeoff", "">>  >>
    \o [i \in 1..(3 * Len(drone_ids)) |->
          << <<"upload_mission", "arm", "takeoff">>[((i - 1) % 3) + 1],
             drone_ids[((i - 1) \div 3) + 1] >>]

IsPrefix(a, b) == Len(a) <= Len(b) /\ a = SubSeq(b, 1, Len(a))

\* the robot returned {started: True}
RobotStarted == sres["robot"] # None /\ sres["robot"].started

\* C15: as long as no step has failed, the requests issued so far are the
\* beginning of: fleet allocate, update to planned, reserve_slots,
\* preflight_check, charge_to_threshold, release_for_takeoff, then
\* upload_mission, arm, takeoff for each assigned drone in list order; and
\* when the robot reports the start, they are that whole sequence.
C15_StepsInPrescribedOrder ==
    sfail = NoFail =>
       /\ IsPrefix(IssuedSequence, PrescribedSequence(sdrones))
       /\ RobotStarted => IssuedSequence = PrescribedSequence(sdrones)

\* C15 witness: a mission with two drones went through every step
C15_Witness ==
    /\ sfail = NoFail
    /\ RobotStarted
    /\ Len(sdrones) = 2
    /\ sres["orchestrator"] # None

\* C16: the result of orchestrator.plan has status running or failed; it is
\* running, with accepted true, only if every step succeeded, and it is
\* failed whenever a step failed or timed out.
C16_PlanReportsOutcome ==
    sres["orchestrator"] # None =>
       /\ sres["orchestrator"].status \in {"running", "failed"}
       /\ sres["orchestrator"].status = "running" =>
             (sres["orchestrator"].accepted /\ sfail = NoFail)
       /\ sfail # NoFail => sres["orchestrator"].status = "failed"

TerminalStatuses == {"failed", "cancelled", "aborted"}

\* C17: a mission record whose status is failed, cancelled or aborted keeps
\* that status in every later step.
C17_TerminalStatusAbsorbing ==
    [][(sstatus \in TerminalStatuses) => (sstatus' = sstatus)]_vars

\* the position of the drone whose step failed first
FailedDroneIndex == IndexOf(sdrones, sfail.drone)

\* C18: when a vehicle step failed for the i-th assigned drone, then once the
\* handlers have returned an abort was issued for each of the drones before
\* it, nothing was issued for the drones after it, and no request was issued
\* twice.
C18_StartedDronesAborted ==
    (SagaQuiet /\ sfail.step \in SeqToSet(DroneSteps)) =>
       /\ \A j \in 1..(FailedDroneIndex - 1) :
             \E k \in 1..Len(slog) :
                slog[k].action = "abort" /\ slog[k].arg = sdrones[j]
       /\ \A j \in (FailedDroneIndex + 1)..Len(sdrones) :
             \A k \in 1..Len(slog) : slog[k].arg # sdrones[j]
       /\ \A k, l \in 1..Len(slog) :
             (k # l /\ slog[k].to \in {"droneport", "drone_service"}) =>
                slog[k] # slog[l]

(* ------------------------ claims: compensation --------------------------- *)
\* the requests _handle_abort_mission has issued so far, as <<action, argument>>
CompensationIssued ==
    LET issued == SelectSeq(slog, LAMBDA e : e.from = "robot")
    IN [i \in 1..Len(issued) |-> <<issued[i].action, issued[i].arg>>]

\* abort and emergency_receive for each drone in list order, then fleet.release
CompensationDue(drone_ids) ==
    [i \in 1..(2 * Len(drone_ids)) |->
       << <<"abort", "emergency_receive">>[((i - 1) % 2) + 1],
          drone_ids[((i - 1) \div 2) + 1] >>]
    \o << <<"fleet.release", "">> >>

\* the actions of the requests the orchestrator's cancel has issued
CancelIssued ==
    LET issued == SelectSeq(slog, LAMBDA e : e.from = "orchestrator")
    IN [i \in 1..Len(issued) |-> issued[i].action]

\* C19: whatever the outcomes of the abort, emergency_receive and
\* fleet.release requests, robot.abort_mission issues all of them in order
\* and returns {aborted: True}, and orchestrator.cancel for a mission id
\* issues get_mission, abort_mission and the update and returns
\* {cancelled: True}.
C19_CompensationBestEffort ==
    /\ spc["robot"] # "idle" => IsPrefix(CompensationIssued, CompensationDue(cids))
    /\ spc["robot"] = "done" =>
          /\ CompensationIssued = CompensationDue(cids)
          /\ sres["robot"] = AbortResult(TRUE, cids)
    /\ (spc["orchestrator"] = "done" /\ slog # <<>>) =>
          /\ CancelIssued = <<"redis.get_mission", "robot.abort_mission",
                              "redis.update_mission">>
          /\ sres["orchestrator"] = CancelResult(TRUE)

\* C19 witness: every compensating request for two drones failed or timed
\* out, the orchestrator's request to the robot timed out too, and both
\* handlers returned their result
C19_Witness ==
    /\ Len(cids) = 2
    /\ spc["robot"] = "done" /\ spc["orchestrator"] = "done"
    /\ sres["robot"] = AbortResult(TRUE, cids)
    /\ sres["orchestrator"] = CancelResult(TRUE)
    /\ \A i \in 1..Len(slog) :
          slog[i].action \in {"abort", "emergency_receive", "fleet.release",
                              "robot.abort_mission"} => i \in cfailed

(* ------------------------- claims: allocation ---------------------------- *)
\* the drones that were available before the last redis.allocate_drones
WereAvailable == {d \in DroneIds : aprev[d] = "available"}

Min(a, b) == IF a <= b THEN a ELSE b

\* C20: redis.allocate_drones with required_count n >= 1 and k available
\* entries returns min(n, k) distinct ids, each of which was available and
\* is now reserved, reports enough = (k >= n), and leaves every other entry
\* of the roster as it was.
C20_AllocateExactly ==
    areq >= 1 =>
       LET ids == ares.allocated_drones
           k == Cardinality(WereAvailable)
       IN /\ Len(ids) = Min(areq, k)
          /\ Cardinality(SeqToSet(ids)) = Len(ids)
          /\ \A d \in SeqToSet(ids) : aprev[d] = "available" /\ fleet[d] = "reserved"
          /\ ares.enough = (k >= areq)
          /\ \A d \in DroneIds \ SeqToSet(ids) : fleet[d] = aprev[d]

\* C20 witness: 3 requested with 1 available: one id, enough false
C20_Witness ==
    /\ areq = 3
    /\ Cardinality(WereAvailable) = 1
    /\ Len(ares.allocated_drones) = 1
    /\ ~ares.enough

\* C21: redis.release_drones reports released = true, leaves the roster
\* with the entries it had, and changes no entry whose id is not listed;
\* called with exactly the ids the preceding allocation returned, it puts
\* every entry back to the status it had before that allocation.
C21_ReleaseRestores ==
    arel # NoRelease =>
       /\ arel.result.released
       /\ DOMAIN fleet = DOMAIN arel.before
       /\ \A d \in DOMAIN arel.before :
             d \notin SeqToSet(arel.drone_ids) => fleet[d] = arel.before[d]
       /\ arel.after_allocate => fleet = aprev

\* C21 witness: two drones were allocated and then released
C21_Witness ==
    /\ arel # NoRelease
    /\ arel.after_allocate
    /\ Len(arel.drone_ids) = 2
    /\ arel.before # aprev
    /\ fleet = aprev

(* --------------------------- claims: messages ---------------------------- *)
\* C22: Message.from_dict(m.to_dict()) equals m in every field; a
\* correlation_id or reply_to that is None is not a key of the encoded dict
\* and is None again after decoding.
C22_MessageRoundTrip ==
    /\ mwire # None =>
          \A f \in {"correlation_id", "reply_to"} :
             mobj[f] = None <=> f \notin DOMAIN mwire
    /\ mdec # None =>
          /\ DOMAIN mdec = MessageFields
          /\ \A f \in MessageFields : mdec[f] = mobj[f]

\* C22 witness: a message without correlation_id and reply_to, and with an
\* empty action and sender, went through to_dict and from_dict
C22_Witness ==
    /\ mdec # None
    /\ mobj.correlation_id = None /\ mobj.reply_to = None
    /\ mobj.action = Str("") /\ mobj.sender = Str("")
    /\ DOMAIN mwire = MessageFields \ {"correlation_id", "reply_to"}
    /\ mdec = mobj

(* ------------------------ claims: subscriptions -------------------------- *)
\* the last call was `op` and it returned or raised
LastCall(op) == blast.op = op

\* C23: a start() on a bus that was not started either raises and leaves the
\* bus not started, or leaves a subscription to the bus's own reply topic.
C23_StartNeedsReplySubscription ==
    (LastCall("start") /\ ~blast.before.started) =>
       \/ blast.ret = "raised" /\ ~bsub.started
       \/ bsub.workers[OwnReplyTopic] > 0

\* the topic of the last call had a callback and a worker before the call
WasSubscribed ==
    /\ blast.before.cb[blast.topic] # NoHandler
    /\ blast.before.workers[blast.topic] > 0

\* C25: subscribe() for a topic that is already subscribed returns True and
\* leaves callbacks, workers and every other field of the bus as they were.
C25_ResubscribeIsNoOp ==
    (LastCall("subscribe") /\ WasSubscribed) =>
       /\ blast.ret = "true"
       /\ bsub = blast.before

\* C26: when subscribe() has returned True, a worker serves the topic.
C26_SubscribedMeansActive ==
    (LastCall("subscribe") /\ blast.ret = "true") =>
       bsub.workers[blast.topic] > 0

(* --------------------------- claims: respond ----------------------------- *)
\* C24: respond(original_message, payload) hands exactly one message to
\* publish(), addressed to the original's reply_to, with action "response",
\* the original's correlation_id and the payload; without reply_to it
\* publishes nothing and returns False.
C24_RespondPublishesOne ==
    rlast # NoRespond =>
       IF rlast.original.reply_to = NoTopic
       THEN rlast.out.sent = <<>> /\ ~rlast.out.ret
       ELSE /\ Len(rlast.out.sent) = 1
            /\ rlast.out.sent[1].topic = rlast.original.reply_to
            /\ rlast.out.sent[1].action = "response"
            /\ rlast.out.sent[1].correlation_id = rlast.original.correlation_id
            /\ rlast.out.sent[1].payload = rlast.payload

\* C24 witness: a request with reply_to and correlation_id was answered
C24_Witness ==
    /\ rlast # NoRespond
    /\ rlast.original.reply_to = ReplyTopic("client")
    /\ rlast.original.correlation_id # NoCid
    /\ rlast.out.ret
    /\ Len(rlast.out.sent) = 1

(* --------------- claims: what the mission's caller learns ---------------- *)
\* C27: when a step of the saga failed or timed out and the mission did not
\* start, the result of task.submit carries an error description.
C27_FailureSurfacedToCaller ==
    (sres["mission"] # None /\ sfail # NoFail
        /\ sres["mission"].status # "running") =>
       sres["mission"].error # NoError

\* C28: every redis.update_mission is issued by the orchestrator.
C28_OnlyOrchestratorUpdates ==
    \A k \in 1..Len(slog) :
       slog[k].action = "redis.update_mission" => slog[k].from = "orchestrator"

(* ------------------- claims: replies of _handle_message ------------------ *)
\* C29: when a registered handler returns a mapping, the empty one included,
\* for a message with reply_to, exactly one message is published: a
\* response to reply_to with the request's correlation_id, success true and
\* the handler's result as payload; when the handler returns None or the
\* message has no reply_to, nothing is published.
C29_ResultIsReplied ==
    (dlast.msg # NoMsg /\ dlast.invoked # "none" /\ ~Raises(dlast.beh)) =>
       IF Stamped(dlast) /\ dlast.beh # "returns_none"
       THEN \E m \in dlast.pub :
               /\ dlast.pub = {m}
               /\ m.topic = dlast.msg.reply_to
               /\ m.action = "response"
               /\ m.correlation_id = dlast.msg.correlation_id
               /\ m.success = "true"
               /\ m.payload = dlast.result
       ELSE dlast.pub = {}

\* C29 witness: a handler returned the empty mapping for a request and the
\* reply was published
C29_Witness ==
    /\ dlast.msg # NoMsg
    /\ Stamped(dlast)
    /\ dlast.beh = "returns_empty"
    /\ dlast.invoked # "none"
    /\ dlast.pub # {}

(* ----------------------- claims: request() returns ----------------------- *)
\* C30: every request() that is waiting for its reply eventually returns,
\* whether or not a reply arrives, and once a call has returned its
\* correlation id is not in _pending_requests.
C30_RequestReturns ==
    /\ \A t \in Threads :
          (rpc[t] \in {"waiting", "timedout"}) ~> (rpc[t] = "returned")
    /\ [](\A t \in Threads :
            rpc[t] = "returned" => rcid[t] \notin pending[BusOf(t)])

\* C30 witness: the fleet's handler waited for the store, no reply was
\* delivered to it, and its request() returned with the entry evicted
C30_Witness ==
    /\ Returned(FleetWorker, "timeout")
    /\ future[rcid[FleetWorker]] = Unset
    /\ pending["fleet"] = {}

(* -------------------------- claims: drone port --------------------------- *)
\* C31: reserve_slot on an occupied port returns status rejected with a
\* reason and writes neither a port record nor a drone record; on a free port
\* it returns reserved with that port id and records the port as reserved for
\* that drone; so no port is ever reserved for two drones.
C31_ReserveSlotExclusive ==
    /\ plast.op = "reserve_slot" =>
          /\ plast.raised = "none"
          /\ IF Occupied(plast.ports, plast.port_id)
             THEN /\ plast.result.status = "rejected"
                  /\ "reason" \in DOMAIN plast.result
                  /\ pports = plast.ports
                  /\ pdrones = plast.drones
             ELSE /\ plast.result.status = "reserved"
                  /\ plast.result.port_id = plast.port_id
                  /\ Occupied(pports, plast.port_id)
                  /\ pports[plast.port_id].drone_id = plast.drone_id
    /\ \A p \in PortIds :
          Cardinality({d \in PortDrones :
                          pdrones[d] # NoRecord /\ pdrones[d].port_id = p}) <= 1

\* C32: takeoff succeeds only from status idle or landed with battery >= 20,
\* and then leaves the drone flying at the requested altitude; in every other
\* case it returns success=false and leaves the whole drone state unchanged.
C32_TakeoffGuarded ==
    simlast.op = "takeoff" =>
       IF /\ simlast.before.status \in {"idle", "landed"}
          /\ simlast.before.battery >= 20
       THEN /\ simlast.result.success
            /\ sim.status = "flying"
            /\ sim.altitude = simlast.arg
       ELSE /\ ~simlast.result.success
            /\ sim = simlast.before

\* C32 witnesses: a takeoff refused for its battery, one refused for the
\* status, and one that succeeded after a landing
C32_Witness ==
    /\ simlast.op = "takeoff"
    /\ simlast.before.status = "landed"
    /\ simlast.before.battery < 20
    /\ simlast.before.total_flights > 0
    /\ ~simlast.result.success

(* -------------------- claims: the reply/timeout race --------------------- *)
\* C33: a reply is never lost to the reply/timeout race: when the dispatcher
\* removed a pending request from the registry and completed its future, the
\* request() call returns that reply and not a timeout; exactly one of reply
\* and timeout decides both the registry removal and the call's result.
C33_ReplyNeverLost ==
    \A t \in Threads :
       /\ Returned(t, "timeout") => Resolutions(rcid[t]) = 0
       /\ Returned(t, "reply") =>
             Resolutions(rcid[t]) = 1 /\ rres[t] = future[rcid[t]]

(* --------------------- claims: a running BaseSystem ---------------------- *)
\* the bus delivers the topic's messages to the handler
ActiveSubscription(st, topic, handler) ==
    st.cb[topic] = handler /\ st.workers[topic] > 0

\* C35: whenever a BaseSystem reports running, the bus holds an active
\* subscription of its inbound topic to _handle_message: start() sets running
\* only after the subscription succeeded, and stop() leaves running false
\* with the inbound topic unsubscribed.
C35_RunningMeansSubscribed ==
    /\ lrunning => ActiveSubscription(bsub, GCS_FLEET, "_handle_message")
    /\ blast.op = "system.stop" =>
          ~lrunning /\ bsub.cb[GCS_FLEET] = NoHandler /\ bsub.workers[GCS_FLEET] = 0

\* C36: when KafkaSystemBus.subscribe(topic, cb) returns False the topic is
\* not recorded as subscribed: no callback and no worker is left for it, and
\* a later subscribe(topic, cb) attempts the subscription again instead of
\* returning True for a topic that has no consumer.
C36_FailedSubscribeLeavesNothing ==
    (backend = "kafka" /\ LastCall("subscribe")) =>
       /\ blast.ret = "false" =>
             /\ bsub.cb[blast.topic] = NoHandler
             /\ bsub.workers[blast.topic] = 0
       /\ (blast.ret = "true" /\ blast.before.workers[blast.topic] = 0) =>
             bsub.workers[blast.topic] > 0

(* ------------------ claims: what completes a request --------------------- *)
\* C37: a pending request is completed only by a message received on the
\* bus's own reply topic; a message that arrives on another subscribed topic
\* with a correlation_id, the process's own request included, goes to that
\* topic's callback and completes no pending request.
C37_OnlyReplyTopicCompletes ==
    \A t \in Threads :
       (rcid[t] # NoCid /\ future[rcid[t]] # Unset) =>
          future[rcid[t]].topic = ReplyTopic(BusOf(t))

(* ------------- claims: the status orchestrator.plan reports -------------- *)
\* slog[k] is a redis.update_mission the orchestrator issued
OrchWrote(k) ==
    slog[k].from = "orchestrator" /\ slog[k].action = "redis.update_mission"

\* C38: whenever orchestrator.plan returns status running or failed, a
\* redis.update_mission setting that status was issued before the return and
\* is the last status the orchestrator wrote; every path that returns failed
\* (fleet unavailable, not enough drones, robot unavailable, robot start
\* failed) writes failed.
C38_ReportedStatusWasWritten ==
    sres["orchestrator"] # None =>
       \E k \in 1..Len(slog) :
          /\ OrchWrote(k)
          /\ slog[k].arg = sres["orchestrator"].status
          /\ \A j \in (k + 1)..Len(slog) : ~OrchWrote(j)

(* ------------------ claims: allocation of any count ---------------------- *)
\* the drones the last redis.allocate_drones marked reserved
NewlyReserved == {d \in DroneIds : aprev[d] # "reserved" /\ fleet[d] = "reserved"}

\* C39: for every integer required_count, 0 and negative values included, an
\* allocation returns and marks reserved at most max(0, required_count)
\* drones, and reports enough only if the number of drones returned is at
\* least the number requested.
C39_AllocatesAtMostRequired ==
    arel = NoRelease =>
       /\ Len(ares.allocated_drones) <= Max(0, areq)
       /\ Cardinality(NewlyReserved) <= Max(0, areq)
       /\ ares.enough => Len(ares.allocated_drones) >= areq

(* --------------- claims: allocations do not overlap ---------------------- *)
\* the step is a redis.allocate_drones call
AllocationStep ==
    /\ arel' = NoRelease
    /\ aprev' = fleet
    /\ aheld' = aheld \cup SeqToSet(ares'.allocated_drones)

\* C34: over any sequence of allocate and release requests, repeated ones
\* included, only drones whose roster status is available are allocated, and
\* a drone id an allocation returned is not returned by another allocation
\* until a release listed it.
C34_AllocationsDisjoint ==
    /\ [](arel = NoRelease =>
            \A d \in SeqToSet(ares.allocated_drones) : aprev[d] = "available")
    /\ [][AllocationStep =>
            SeqToSet(ares'.allocated_drones) \cap aheld = {}]_vars

\* C34 witness: an allocation returned a drone while an earlier allocation's
\* drone was still held
C34_Witness ==
    /\ arel = NoRelease
    /\ Len(ares.allocated_drones) > 0
    /\ Cardinality(aheld) > Len(ares.allocated_drones)

(* -------------------- claims: the order of a cancel ---------------------- *)
\* the robot's requests among the first n entries of slog, as
\* <<action, argument>>
CompensationBefore(n) ==
    LET issued == SelectSeq(SubSeq(slog, 1, n), LAMBDA e : e.from = "robot")
    IN [i \in 1..Len(issued) |-> <<issued[i].action, issued[i].arg>>]

\* C40: orchestrator.cancel for a mission with assigned drones D issues an
\* abort and an emergency_receive for every drone of D, then one fleet
\* release for D, and only after these writes status cancelled; without a
\* mission_id it returns cancelled = false and issues no request.
C40_CancelCompensatesFirst ==
    sres["orchestrator"] # None =>
       IF sres["orchestrator"].cancelled
       THEN sdrones # <<>> =>
               \E k \in 1..Len(slog) :
                  /\ OrchWrote(k) /\ slog[k].arg = "cancelled"
                  /\ CompensationBefore(k) = CompensationDue(sdrones)
       ELSE slog = <<>>

====
